---- MODULE Spec2Model ----
(***************************************************************************)
(* Recording engine of the kernel-images API server.                       *)
(*                                                                         *)
(* server/lib/recorder/ffmpeg.go : FFmpegRecorder (one encoder subprocess, *)
(*   its waiter goroutine, the recorder mutex) and FFmpegManager (the      *)
(*   registry of recorders by id, the registry mutex).                     *)
(* server/cmd/api/api/api.go     : the HTTP handlers StartRecording,       *)
(*   StopRecording and DownloadRecording.                                  *)
(*                                                                         *)
(* Every HTTP request runs on its own goroutine ("thread").  A mutex       *)
(* section that cannot block inside is one atomic step guarded by the      *)
(* mutex being free; a section that blocks (ForceStop's wait) keeps the    *)
(* mutex across steps.  Timers are untimed: a timeout may fire whenever    *)
(* the wait is pending.                                                    *)
(***************************************************************************)
EXTENDS Integers, Sequences, FiniteSets, TLC

\* ---------------------------------------------------------------- bounds
NumThreads == 2                 \* request goroutines (one request each)
Threads == 1..NumThreads
Ids == {"main"}                 \* api.go:31, defaultRecorderID: the id of every request
NumHandlers == 2                \* concurrent extension uploads
Handlers == 1..NumHandlers
MaxUrls == 3                    \* browser starts that reach the supervisor log
MaxTailRuns == 2                \* tail sessions of the upstream manager
MaxParts == 4                   \* parts of a multipart body
MaxCalls == 6                   \* calls of the idle controller
MaxTokens == 2                  \* tokens of a flag list given to the merge
NumSessions == 2                \* bridged WebSocket sessions
MaxSleeps == 5                  \* backoff sleeps of the tail loop
MaxLines == 2                   \* lines of the log the tail loop reads
MaxMgrCalls == 3                \* calls of Start and Stop on the manager
MaxMsgs == 2                    \* messages a peer sends in one direction
InitialBackoff == 250           \* proxy.go:90, in ms
MaxBackoff == 2000              \* proxy.go:104, in ms
\* Mutant: errChan has room for one error.
errChanCapOne == 2 - 1

errChanCap == 2                 \* proxy.go:297
Sessions == 1..NumSessions

\* ------------------------------------------------------ program constants
minRecordingSizeInBytes == 100  \* api.go:117
RetryAfter == 300               \* api.go:146
MaxPhase == 3                   \* ffmpeg.go:328-330, len(phases)

VARIABLES
    recs,       \* recs[r]: the FFmpegRecorder made by request r, its encoder and waiter
    recorders,  \* FFmpegManager.recorders: id -> recorder (0: no entry)
    fmMu,       \* FFmpegManager.mu: 0 free, else the thread holding it
    files,      \* size of <outputDir>/<id>.mp4 in bytes, -1: no such file
    th          \* th[t]: the request goroutine t (handler, position, locals)

\* The DevTools upstream manager and the extension upload handler
\* (server/lib/devtoolsproxy/proxy.go, server/cmd/api/api/chromium.go), the
\* multipart parser of the upload, and the idle controller
\* (server/lib/scaletozero).
VARIABLES
    log,        \* the "DevTools listening on" lines of the supervisor log: their URLs
    tail,       \* the tailer: lines read by the running tail, tail sessions so far
    cur,        \* UpstreamManager.currentURL (0: the empty string)
    subs,       \* the subscriber sinks the upstream manager holds
    up,         \* up[h]: the upload request h after its flags file is written
    mp,         \* the multipart body of an upload and the parser's locals
    stz,        \* the debounced idle controller and its inner writer
    ops,        \* ops[o]: a long operation holding (or not) the idle lease
    mf,         \* a merge of Chromium flag token lists: inputs and output
    ws,         \* ws[c]: a request to the DevTools proxy, bridged or answered
    tl,         \* the upstream manager's Start/Stop state and its tail loop
    br          \* the messages of one bridged session, by direction

recVars == <<recs, recorders, fmMu, files, th>>
upVars == <<log, tail, cur, subs, up>>
more == <<ops, mf, ws, tl, br>>
aux == <<upVars, mp, stz, more>>
vars ==
    <<recs, recorders, fmMu, files, th, log, tail, cur, subs, up, mp, stz,
      ops, mf, ws, tl, br>>

\* File sizes the encoder produces: a header below the threshold, then data.
SmallSize == minRecordingSizeInBytes
BigSize == minRecordingSizeInBytes + 1
NoFile == 0 - 1

\* Exit codes of an encoder that exits by itself (0: clean, 1: error).
ExitCodes == {0, 1}

\* A struct value before the factory has made it / as the factory makes it.
NoRecorder ==
    [made |-> FALSE, id |-> "", cmd |-> FALSE, proc |-> "nil", status |-> 0,
     exitCode |-> 0, ffmpegErr |-> FALSE, exited |-> "nil",
     startTime |-> "zero", endTime |-> "zero", mu |-> 0,
     waiter |-> "none", sigs |-> {}, opened |-> FALSE]

\* ffmpeg.go:63-74: id and outputPath set, every other field its zero value.
NewFFmpegRecorder(i) == [NoRecorder EXCEPT !.made = TRUE, !.id = i]

NoThread ==
    [op |-> "none", pc |-> "idle", id |-> "", force |-> FALSE, rec |-> 0,
     ctx |-> FALSE, phase |-> 0, sent |-> <<>>, waitRes |-> "none",
     err |-> FALSE, size |-> NoFile, endTime |-> "zero", resp |-> 0,
     retryAfter |-> 0, arrRunning |-> FALSE, todo |-> {}]

\* No multipart body is being parsed.
MpIdle ==
    [pc |-> "idle", parts |-> <<>>, i |-> 0, name |-> FALSE,
     zipReceived |-> FALSE, open |-> FALSE, items |-> 0, unpacked |-> 0,
     resp |-> 0, msg |-> "", zipFailed |-> FALSE, flagsWritten |-> FALSE,
     restart |-> FALSE]

\* The debounced controller as NewDebouncedController returns it, around a
\* writer that has written nothing.
StzIdle ==
    [count |-> 0, last |-> "-", plus |-> 0, minus |-> 0, calls |-> 0,
     peak |-> 0, failed |-> FALSE, hist |-> <<>>]

\* An upload request that has not reached its restart phase.
NoUpload ==
    [pc |-> "idle", sink |-> "none", got |-> 0, notifs |-> 0, trigAt |-> 0,
     restart |-> "none", errCh |-> FALSE, sel |-> "none", resp |-> 0,
     msg |-> ""]

\* No flag lists have been given to the merge.
MfIdle ==
    [pc |-> "idle", base |-> <<>>, overlay |-> <<>>, out |-> <<>>,
     again |-> <<>>]

\* No URL has been put into a response.
NoUrl == [scheme |-> "", host |-> ""]

\* A request to the DevTools proxy that has not arrived.
NoSession ==
    [pc |-> "idle", c2u |-> "none", u2c |-> "none", errs |-> 0,
     once |-> FALSE, clientClosed |-> 0, upClosed |-> 0, end |-> "none",
     path |-> "none", host |-> "", seen |-> 0 - 1, status |-> 0,
     tried |-> {}, url |-> NoUrl]

\* proxy.go:37-41 and 90: the manager as NewUpstreamManager returns it,
\* neither started nor stopped; the tail loop's locals before it runs.
TlIdle ==
    [pc |-> "none", startOnce |-> FALSE, stopOnce |-> FALSE,
     cancelTail |-> FALSE, cancelled |-> FALSE, parent |-> FALSE,
     launched |-> 0, calls |-> 0, stopAfter |-> FALSE,
     backoff |-> InitialBackoff, sleeps |-> 0, slept |-> 0,
     matched |-> FALSE]

\* The two directions of a bridge.
Dirs == {"c2u", "u2c"}

\* No message is held by a copying goroutine.
NoMsg == [mt |-> "none", p |-> ""]

\* No session is being bridged.
BrIdle ==
    [pc |-> "idle", logging |-> FALSE,
     src |-> [d \in Dirs |-> <<>>], n |-> [d \in Dirs |-> 0],
     held |-> [d \in Dirs |-> NoMsg], out |-> [d \in Dirs |-> <<>>],
     st |-> [d \in Dirs |-> "none"], logged |-> [d \in Dirs |-> 0]]

\* No long operation, no merge, no request to the proxy, no tail loop and
\* no bridge is under way.
MoreIdle ==
    /\ ops = [o \in Handlers |-> "idle"]
    /\ mf = MfIdle
    /\ ws = [c \in Sessions |-> NoSession]
    /\ tl = TlIdle
    /\ br = BrIdle

\* proxy.go:37-41, NewUpstreamManager: currentURL is the empty string, no
\* tail session yet, no upload in flight.
UpIdle ==
    /\ log = <<>>
    /\ tail = [pos |-> 0, runs |-> 0]
    /\ cur = 0
    /\ subs = {}
    /\ up = [h \in Handlers |-> NoUpload]

Init ==
    /\ recs = [r \in Threads |-> NoRecorder]
    /\ recorders = [i \in Ids |-> 0]
    /\ fmMu = 0
    /\ files = [i \in Ids |-> NoFile]
    /\ th = [t \in Threads |-> NoThread]
    /\ UpIdle
    /\ mp = MpIdle
    /\ stz = StzIdle
    /\ MoreIdle

\* ------------------------------------------------------------- helpers
ThSet(t, ch) == th' = [th EXCEPT ![t] = ch @@ @]
RecSet(r, ch) == recs' = [recs EXCEPT ![r] = ch @@ @]

\* Requests are interchangeable: thread t takes a request only after t-1 has.
Fresh(t) ==
    /\ th[t].op = "none"
    /\ IF t = 1 THEN TRUE ELSE th[t - 1].op # "none"

\* ffmpeg.go:188, the value IsRecording returns (read under fr.mu).
IsRecording(r) == recs[r].cmd /\ recs[r].exitCode < 0

\* ffmpeg.go:360-369, waitForChan: the select cases that can win.  nil iff
\* "exited"; the timer and ctx.Done() both yield a non-nil error.  The
\* request's context (client gone, deadline) is looked at nowhere else: it
\* is cancelled during some wait ("ctx", th[t].ctx from then on), and once
\* it is, a later wait returns at once, before its timer can fire.
WaitOutcomes(t, r) ==
    {"ctx"}
    \cup (IF th[t].ctx THEN {} ELSE {"timeout"})
    \cup (IF recs[r].exited = "closed" THEN {"exited"} ELSE {})


\* The handler has answered: status code and, for 202, the Retry-After header.
Respond(t, code) ==
    [pc |-> "done", resp |-> code, ctx |-> FALSE,
     phase |-> 0, sent |-> <<>>, waitRes |-> "none", err |-> FALSE,
     size |-> NoFile, endTime |-> "zero"]

\* What a request meets as it arrives: the recorder of the id is Running and
\* the StartRecording that made it has been answered 201.
Started(r) == IsRecording(r) /\ th[r].pc = "done" /\ th[r].resp = 201

\* ------------------------------------------------- POST /recording/start
\* Mutant: RegisterRecorder without the duplicate check.
RegisterFailsNever(i) == FALSE

\* ffmpeg.go:418, RegisterRecorder's duplicate check.
RegisterFails(i) == recorders[i] # 0

\* api.go:35-64 up to the return of RegisterRecorder (ffmpeg.go:411-425):
\* the factory makes a new recorder for the id, RegisterRecorder stores it
\* under fm.mu unless the id has an entry.
StartRecording(t, i) ==
    /\ Fresh(t)
    /\ fmMu = 0
    /\ recs' = [recs EXCEPT ![t] = NewFFmpegRecorder(i)]
    /\ IF RegisterFails(i)
       THEN /\ ThSet(t, [op |-> "StartRecording", id |-> i, pc |-> "sr_get"])
            /\ UNCHANGED recorders
       ELSE /\ ThSet(t, [op |-> "StartRecording", id |-> i, rec |-> t,
                         pc |-> "start_lock"])
            /\ recorders' = [recorders EXCEPT ![i] = t]
    /\ UNCHANGED <<fmMu, files, aux>>

\* api.go:58, GetRecorder (ffmpeg.go:382-388) after a failed registration.
SrGetRecorder(t) ==
    /\ th[t].pc = "sr_get"
    /\ fmMu = 0
    /\ IF recorders[th[t].id] # 0
       THEN ThSet(t, [rec |-> recorders[th[t].id], pc |-> "sr_isrec"])
       ELSE ThSet(t, Respond(t, 500))
    /\ UNCHANGED <<recs, recorders, fmMu, files, aux>>

\* api.go:58-63, rec.IsRecording decides between 409 and 500.
SrIsRecording(t) ==
    /\ th[t].pc = "sr_isrec"
    /\ recs[th[t].rec].mu = 0
    /\ ThSet(t, Respond(t, IF IsRecording(th[t].rec) THEN 409 ELSE 500))
    /\ UNCHANGED <<recs, recorders, fmMu, files, aux>>

\* Start returns error e: to the handler that called it (api.go:66), or a
\* direct call ends with it.
StartReturns(t, e) ==
    IF th[t].op = "StartRecording"
    THEN [err |-> e, pc |-> "sr_ret"]
    ELSE [Respond(t, 0) EXCEPT !.err = e]

\* Mutant: Start without its guard.
StartRejectsNever(r) == FALSE

\* ffmpeg.go:109, Start's guard.
StartRejects(r) == recs[r].cmd

\* ffmpeg.go:108-131, Start's section under fr.mu.  The early return at
\* line 110 leaves fr.mu locked.
StartLock(t) ==
    LET r == th[t].rec IN
    /\ th[t].pc = "start_lock"
    /\ recs[r].mu = 0
    /\ IF StartRejects(r)
       THEN /\ RecSet(r, [mu |-> t])
            /\ ThSet(t, StartReturns(t, TRUE))
       ELSE /\ RecSet(r, [ffmpegErr |-> FALSE, exitCode |-> 0 - 1,
                          startTime |-> "set", exited |-> "open",
                          cmd |-> TRUE])
            /\ ThSet(t, [pc |-> "start_spawn"])
    /\ UNCHANGED <<recorders, fmMu, files, aux>>

\* ffmpeg.go:133-138, cmd.Start() outside the mutex: on success the
\* process exists (cmd.Process set) and the waiter goroutine is launched.
StartSpawn(t) ==
    LET r == th[t].rec IN
    /\ th[t].pc = "start_spawn"
    /\ \E ok \in BOOLEAN :
          IF ok
          THEN /\ RecSet(r, [proc |-> "alive", waiter |-> "waiting"])
               /\ ThSet(t, [pc |-> "start_wait"])
          ELSE /\ ThSet(t, StartReturns(t, TRUE))
               /\ UNCHANGED recs
    /\ UNCHANGED <<recorders, fmMu, files, aux>>

\* Mutant: Start fails on any wait that the timer did not end, a cancelled
\* context included.
StartWaitFailedOnCancel(res) == res # "timeout"

\* ffmpeg.go:141, the outcome of the 500 ms wait that makes Start fail.
StartWaitFailed(res) == res = "exited"

\* ffmpeg.go:141-147, the startup wait.
StartWait(t) ==
    LET r == th[t].rec IN
    /\ th[t].pc = "start_wait"
    /\ \E res \in WaitOutcomes(t, r) :
          IF StartWaitFailed(res)
          THEN ThSet(t, [pc |-> "start_failed"])
          ELSE ThSet(t, StartReturns(t, FALSE))
    /\ UNCHANGED <<recs, recorders, fmMu, files, aux>>

\* ffmpeg.go:142-144, the error is built from fr.ffmpegErr under fr.mu.
StartFailed(t) ==
    /\ th[t].pc = "start_failed"
    /\ recs[th[t].rec].mu = 0
    /\ ThSet(t, StartReturns(t, TRUE))
    /\ UNCHANGED <<recs, recorders, fmMu, files, aux>>

\* api.go:66-73, after rec.Start: 201, or 500 and the deferred
\* DeregisterRecorder (ffmpeg.go:403-409), which deletes by the recorder's id.
SrReturn(t) ==
    /\ th[t].pc = "sr_ret"
    /\ IF th[t].err
       THEN /\ fmMu = 0
            /\ recorders' = [recorders EXCEPT ![recs[th[t].rec].id] = 0]
            /\ ThSet(t, Respond(t, 500))
       ELSE /\ ThSet(t, Respond(t, 201))
            /\ UNCHANGED recorders
    /\ UNCHANGED <<recs, fmMu, files, aux>>

\* ------------------------------------------- the encoder and its waiter
\* The encoder ends by itself (error, size limit, or its handler for INT or
\* TERM) with an exit code.
ProcExit(r) ==
    /\ recs[r].proc = "alive"
    /\ \E c \in ExitCodes : RecSet(r, [proc |-> "exited", status |-> c])
    /\ UNCHANGED <<recorders, fmMu, files, th, aux>>

FatalSignals == {"INT", "TERM", "KILL"}

\* The encoder is killed by a signal it has been sent.
ProcDie(r) ==
    /\ recs[r].proc = "alive"
    /\ recs[r].sigs \cap FatalSignals # {}
    /\ RecSet(r, [proc |-> "signaled"])
    /\ UNCHANGED <<recorders, fmMu, files, th, aux>>

\* ffmpeg.go:269-270, "-y outputPath": the encoder creates or truncates its
\* output file and writes the container header.
EncoderOpen(r) ==
    /\ recs[r].proc = "alive"
    /\ ~recs[r].opened
    /\ RecSet(r, [opened |-> TRUE])
    /\ files' = [files EXCEPT ![recs[r].id] = SmallSize]
    /\ UNCHANGED <<recorders, fmMu, th, aux>>

\* The encoder appends fragments.
EncoderWrite(r) ==
    /\ recs[r].proc = "alive"
    /\ recs[r].opened
    /\ files[recs[r].id] < BigSize
    /\ files' = [files EXCEPT ![recs[r].id] = BigSize]
    /\ UNCHANGED <<recs, recorders, fmMu, th, aux>>

\* os/exec ProcessState.ExitCode() as ffmpeg.go:289 calls it: the exit code
\* of a process that exited, -1 for a process terminated by a signal.
ExitCode(r) == IF recs[r].proc = "exited" THEN recs[r].status ELSE 0 - 1

\* ffmpeg.go:279-298, waitForCommand: cmd.Wait() has returned, then under
\* fr.mu the final state is published and the exited channel closed.
waitForCommand(r) ==
    /\ recs[r].waiter = "waiting"
    /\ recs[r].proc \in {"exited", "signaled"}
    /\ recs[r].mu = 0
    /\ RecSet(r, [ffmpegErr |-> ExitCode(r) # 0, exitCode |-> ExitCode(r),
                  endTime |-> "set", exited |-> "closed", waiter |-> "done"])
    /\ UNCHANGED <<recorders, fmMu, files, th, aux>>


\* -------------------------------------------------- POST /recording/stop
\* api.go:76-88, GetRecorder: 400 when the id has no entry.
StopRecording(t, i, f) ==
    /\ Fresh(t)
    /\ fmMu = 0
    /\ IF recorders[i] = 0
       THEN ThSet(t, [op |-> "StopRecording", id |-> i, force |-> f]
                     @@ Respond(t, 400))
       ELSE ThSet(t, [op |-> "StopRecording", id |-> i, force |-> f,
                      rec |-> recorders[i], pc |-> "stop_isrec",
                      arrRunning |-> Started(recorders[i])])
    /\ UNCHANGED <<recs, recorders, fmMu, files, aux>>

\* api.go:89-107, 200 at once when IsRecording is false, else ForceStop or
\* Stop as the body asks.
StopIsRecording(t) ==
    /\ th[t].pc = "stop_isrec"
    /\ recs[th[t].rec].mu = 0
    /\ IF ~IsRecording(th[t].rec)
       THEN ThSet(t, Respond(t, 200))
       ELSE ThSet(t, [pc |-> IF th[t].force THEN "force_lock" ELSE "gs_lock"])
    /\ UNCHANGED <<recs, recorders, fmMu, files, aux>>

\* api.go:109-113, the error of Stop or ForceStop is logged; 200 either way.
\* A direct call ends with the method's error.
\* Inside StopAll the loop goes on (ffmpeg.go:436-439), errors collected.
StopReturns(t, e) ==
    CASE th[t].op = "StopRecording" -> Respond(t, 200)
      [] th[t].op = "Shutdown" ->
            [pc |-> "sa_loop", err |-> th[t].err \/ e, rec |-> 0, phase |-> 0,
             sent |-> <<>>, waitRes |-> "none"]
      [] OTHER -> [Respond(t, 0) EXCEPT !.err = e]

\* ffmpeg.go:305-313, gracefulShutdown's section under fr.mu: done at once
\* when the exit code has been observed, else cmd and exited are captured.
GsLock(t) ==
    LET r == th[t].rec IN
    /\ th[t].pc = "gs_lock"
    /\ recs[r].mu = 0
    /\ IF recs[r].exitCode >= 0
       THEN ThSet(t, StopReturns(t, FALSE))
       ELSE ThSet(t, [pc |-> "gs_check"])
    /\ UNCHANGED <<recs, recorders, fmMu, files, aux>>

\* ffmpeg.go:315-319, cmd.Process is read outside the mutex, while Start
\* may be inside cmd.Start().
GsCheck(t) ==
    LET r == th[t].rec IN
    /\ th[t].pc = "gs_check"
    /\ IF ~recs[r].cmd \/ recs[r].proc = "nil"
       THEN ThSet(t, StopReturns(t, TRUE))
       ELSE ThSet(t, [phase |-> 1, pc |-> "gs_phase"])
    /\ UNCHANGED <<recs, recorders, fmMu, files, aux>>

\* ffmpeg.go:328-330, the signals of each phase, in the order sent.
PhaseSignals(k) ==
    CASE k = 1 -> <<"CONT", "INT">>
      [] k = 2 -> <<"TERM">>
      [] OTHER -> <<"KILL">>

SeqRange(q) == {q[n] : n \in 1..Len(q)}

\* ffmpeg.go:333-346, the head of a phase: return when exited is closed,
\* else signal the process group.
GsPhase(t) ==
    LET r == th[t].rec IN
    /\ th[t].pc = "gs_phase"
    /\ IF recs[r].exited = "closed"
       THEN /\ ThSet(t, StopReturns(t, FALSE))
            /\ UNCHANGED recs
       ELSE /\ RecSet(r, [sigs |-> recs[r].sigs
                                   \cup SeqRange(PhaseSignals(th[t].phase))])
            /\ ThSet(t, [sent |-> th[t].sent \o PhaseSignals(th[t].phase),
                         pc |-> "gs_wait"])
    /\ UNCHANGED <<recorders, fmMu, files, aux>>

\* ffmpeg.go:349, the outcome of a phase's wait that ends gracefulShutdown.
PhaseWaitDone(res) == res = "exited"

\* ffmpeg.go:348-356, the wait of a phase: return on exit, else the next
\* phase; after the last phase return nil.
GsWait(t) ==
    LET r == th[t].rec IN
    /\ th[t].pc = "gs_wait"
    /\ \E res \in WaitOutcomes(t, r) :
          IF PhaseWaitDone(res) \/ th[t].phase = MaxPhase
          THEN ThSet(t, StopReturns(t, FALSE))
          ELSE ThSet(t, [waitRes |-> res, ctx |-> th[t].ctx \/ res = "ctx",
                         phase |-> th[t].phase + 1, pc |-> "gs_phase"])
    /\ UNCHANGED <<recs, recorders, fmMu, files, aux>>

\* ffmpeg.go:159-176, ForceStop under fr.mu up to Process.Kill().  Kill on a
\* nil cmd.Process panics (the deferred Unlock runs, no response is
\* written: resp -1); Kill fails once cmd.Wait() has reaped the process.
ForceLock(t) ==
    LET r == th[t].rec IN
    /\ th[t].pc = "force_lock"
    /\ recs[r].mu = 0
    /\ \/ /\ ~recs[r].cmd
          /\ ThSet(t, StopReturns(t, TRUE))
          /\ UNCHANGED recs
       \/ /\ recs[r].cmd /\ recs[r].exitCode >= 0
          /\ ThSet(t, StopReturns(t, FALSE))
          /\ UNCHANGED recs
       \/ /\ recs[r].cmd /\ recs[r].exitCode < 0 /\ recs[r].proc = "nil"
          /\ ThSet(t, Respond(t, 0 - 1))
          /\ UNCHANGED recs
       \/ /\ recs[r].cmd /\ recs[r].exitCode < 0
          /\ recs[r].proc \in {"exited", "signaled"}
          /\ ThSet(t, StopReturns(t, TRUE))
          /\ UNCHANGED recs
       \/ /\ recs[r].cmd /\ recs[r].exitCode < 0
          /\ recs[r].proc # "nil" /\ recs[r].waiter = "waiting"
          /\ RecSet(r, [sigs |-> recs[r].sigs \cup {"KILL"}, mu |-> t])
          /\ ThSet(t, [sent |-> th[t].sent \o <<"KILL">>, pc |-> "force_wait"])
    /\ UNCHANGED <<recorders, fmMu, files, aux>>

\* ffmpeg.go:178-181, the 1 s wait, still under fr.mu; then the deferred
\* Unlock.
ForceWait(t) ==
    LET r == th[t].rec IN
    /\ th[t].pc = "force_wait"
    /\ \E res \in WaitOutcomes(t, r) :
          /\ RecSet(r, [mu |-> 0])
          /\ ThSet(t, StopReturns(t, FALSE))
    /\ UNCHANGED <<recorders, fmMu, files, aux>>

\* ----------------------------------------------- GET /recording/download
\* api.go:120-134, GetRecorder: 404 when the id has no entry.
DownloadRecording(t, i) ==
    /\ Fresh(t)
    /\ fmMu = 0
    /\ IF recorders[i] = 0
       THEN ThSet(t, [op |-> "DownloadRecording", id |-> i] @@ Respond(t, 404))
       ELSE ThSet(t, [op |-> "DownloadRecording", id |-> i,
                      rec |-> recorders[i], pc |-> "rec_isrec",
                      arrRunning |-> Started(recorders[i])])
    /\ UNCHANGED <<recs, recorders, fmMu, files, aux>>

\* ffmpeg.go:193-195, Recording refuses while IsRecording; api.go:137-140
\* answers any error of Recording with 500.
RecIsRecording(t) ==
    /\ th[t].pc = "rec_isrec"
    /\ recs[th[t].rec].mu = 0
    /\ IF IsRecording(th[t].rec)
       THEN ThSet(t, Respond(t, 500))
       ELSE ThSet(t, [pc |-> "rec_open"])
    /\ UNCHANGED <<recs, recorders, fmMu, files, aux>>

\* ffmpeg.go:197-207, os.Open and Stat of the output file.
RecOpen(t) ==
    LET path == recs[th[t].rec].id IN
    /\ th[t].pc = "rec_open"
    /\ IF files[path] = NoFile
       THEN ThSet(t, Respond(t, 500))
       ELSE ThSet(t, [size |-> files[path], pc |-> "rec_meta"])
    /\ UNCHANGED <<recs, recorders, fmMu, files, aux>>

\* ffmpeg.go:209-215, the metadata is read under fr.mu.
RecMeta(t) ==
    /\ th[t].pc = "rec_meta"
    /\ recs[th[t].rec].mu = 0
    /\ ThSet(t, [endTime |-> recs[th[t].rec].endTime, pc |-> "dl_isrec"])
    /\ UNCHANGED <<recs, recorders, fmMu, files, aux>>

\* api.go:143, the condition of the 202 answer.
TryAgainLater(t) ==
    IsRecording(th[t].rec) /\ th[t].size <= minRecordingSizeInBytes

\* api.go:142-159, 202 with Retry-After, else 200 with the file.
DlIsRecording(t) ==
    /\ th[t].pc = "dl_isrec"
    /\ recs[th[t].rec].mu = 0
    /\ IF TryAgainLater(t)
       THEN ThSet(t, [retryAfter |-> RetryAfter] @@ Respond(t, 202))
       ELSE ThSet(t, Respond(t, 200))
    /\ UNCHANGED <<recs, recorders, fmMu, files, aux>>

\* ------------------------------------------------------------ Shutdown
\* api.go:162-164 and ffmpeg.go:427-431: StopAll takes fm.mu and keeps it
\* until it returns.
Shutdown(t) ==
    /\ Fresh(t)
    /\ fmMu = 0
    /\ fmMu' = t
    /\ ThSet(t, [op |-> "Shutdown", pc |-> "sa_loop",
                 todo |-> {i \in Ids : recorders[i] # 0},
                 arrRunning |-> \E i \in Ids :
                                  recorders[i] # 0 /\ Started(recorders[i])])
    /\ UNCHANGED <<recs, recorders, files, aux>>

\* ffmpeg.go:434-449, the loop over the map (in any order) and the return
\* with the joined errors; the deferred Unlock releases fm.mu.
StopAllLoop(t) ==
    /\ th[t].pc = "sa_loop"
    /\ IF th[t].todo = {}
       THEN /\ fmMu' = 0
            /\ ThSet(t, [Respond(t, 0) EXCEPT !.err = th[t].err,
                                              !.ctx = th[t].ctx])
       ELSE /\ \E i \in th[t].todo :
                  ThSet(t, [todo |-> th[t].todo \ {i}, rec |-> recorders[i],
                            pc |-> "sa_isrec"])
            /\ UNCHANGED fmMu
    /\ UNCHANGED <<recs, recorders, files, aux>>

\* ffmpeg.go:435-436, Stop only for a recorder whose IsRecording is true.
StopAllIsRecording(t) ==
    /\ th[t].pc = "sa_isrec"
    /\ recs[th[t].rec].mu = 0
    /\ IF IsRecording(th[t].rec)
       THEN ThSet(t, [pc |-> "gs_lock"])
       ELSE ThSet(t, [pc |-> "sa_loop", rec |-> 0])
    /\ UNCHANGED <<recs, recorders, fmMu, files, aux>>

\* ------------------------------------------ direct calls on a recorder
\* A caller of the Recorder interface invokes a method on the recorder the
\* factory has made, whatever its state.
LibEntry(m) ==
    CASE m = "Start" -> "start_lock"
      [] m = "Stop" -> "gs_lock"
      [] OTHER -> "force_lock"

LibCall(t, m) ==
    /\ Fresh(t)
    /\ recs[1].made
    /\ ThSet(t, [op |-> m, id |-> recs[1].id, rec |-> 1, pc |-> LibEntry(m)])
    /\ UNCHANGED <<recs, recorders, fmMu, files, aux>>

\* ------------------------------------------------------- specification
\* The steps inside the recorder's methods, the encoder and the waiter.
RecorderStep ==
    \/ \E t \in Threads : StartLock(t)
    \/ \E t \in Threads : StartSpawn(t)
    \/ \E t \in Threads : StartWait(t)
    \/ \E t \in Threads : StartFailed(t)
    \/ \E t \in Threads : GsLock(t)
    \/ \E t \in Threads : GsCheck(t)
    \/ \E t \in Threads : GsPhase(t)
    \/ \E t \in Threads : GsWait(t)
    \/ \E t \in Threads : ForceLock(t)
    \/ \E t \in Threads : ForceWait(t)
    \/ \E r \in Threads : ProcExit(r)
    \/ \E r \in Threads : ProcDie(r)
    \/ \E r \in Threads : EncoderOpen(r)
    \/ \E r \in Threads : EncoderWrite(r)
    \/ \E r \in Threads : waitForCommand(r)

Next ==
    \/ \E t \in Threads, i \in Ids : StartRecording(t, i)
    \/ \E t \in Threads : SrGetRecorder(t)
    \/ \E t \in Threads : SrIsRecording(t)
    \/ \E t \in Threads : SrReturn(t)
    \/ \E t \in Threads, i \in Ids, f \in BOOLEAN : StopRecording(t, i, f)
    \/ \E t \in Threads : StopIsRecording(t)
    \/ \E t \in Threads, i \in Ids : DownloadRecording(t, i)
    \/ \E t \in Threads : RecIsRecording(t)
    \/ \E t \in Threads : RecOpen(t)
    \/ \E t \in Threads : RecMeta(t)
    \/ \E t \in Threads : DlIsRecording(t)
    \/ \E t \in Threads : Shutdown(t)
    \/ \E t \in Threads : StopAllLoop(t)
    \/ \E t \in Threads : StopAllIsRecording(t)
    \/ RecorderStep

Spec == Init /\ [][Next]_vars

\* Direct calls of Start, Stop and ForceStop on one recorder.
InitLib ==
    /\ recs = [r \in Threads |->
                 IF r = 1 THEN NewFFmpegRecorder("main") ELSE NoRecorder]
    /\ recorders = [i \in Ids |-> 0]
    /\ fmMu = 0
    /\ files = [i \in Ids |-> NoFile]
    /\ th = [t \in Threads |-> NoThread]
    /\ UpIdle
    /\ mp = MpIdle
    /\ stz = StzIdle
    /\ MoreIdle

NextLib ==
    \/ \E t \in Threads, m \in {"Start", "Stop", "ForceStop"} : LibCall(t, m)
    \/ RecorderStep

SpecLib == InitLib /\ [][NextLib]_vars


\* ------------------------------------- DevTools upstream manager, upload
UpSet(h, ch) == up' = [up EXCEPT ![h] = ch @@ @]

\* proxy.go:75-78, Current().
Current == cur

\* The manager's fan-out on a publication: every sink that waits for its
\* one notification receives the new URL once; a sink that has had its
\* notification, or was cancelled, receives nothing.
Notify(url) ==
    up' = [h \in Handlers |->
             IF h \in subs /\ up[h].sink = "pending"
             THEN [up[h] EXCEPT !.sink = "notified", !.got = url,
                                !.notifs = @ + 1]
             ELSE up[h]]

\* Mutant: setCurrent without its comparison against the current value.
UrlChangedAlways(url) == TRUE

\* proxy.go:83, the guard of a publication: non-empty and not the current URL.
UrlChanged(url) == url # 0 /\ url # Current

\* proxy.go:81-87, setCurrent: store, and the subscribers learn of it.
setCurrent(url) ==
    IF UrlChanged(url)
    THEN /\ cur' = url
         /\ Notify(url)
    ELSE UNCHANGED <<cur, up>>

\* proxy.go:130-140, runTailOnce: the scanner yields the next matching line
\* of the log and setCurrent gets its URL.
TailRead ==
    /\ tail.runs > 0
    /\ tail.pos < Len(log)
    /\ setCurrent(log[tail.pos + 1])
    /\ tail' = [tail EXCEPT !.pos = @ + 1]
    /\ UNCHANGED <<recVars, log, subs, mp, stz, more>>

\* proxy.go:89-107 and 109-114, tailLoop: the tail session has ended
\* (scanner error, tail gone) and runTailOnce starts "tail -f -n +1" again,
\* which reads the log from its first line.
TailRestart ==
    /\ tail.runs < MaxTailRuns
    /\ tail' = [pos |-> 0, runs |-> tail.runs + 1]
    /\ UNCHANGED <<recVars, log, cur, subs, up, mp, stz, more>>

\* Subscribe(): the state of the new sink, which the manager holds: it
\* waits for the next change.
Subscribe(h) == "pending"

\* The cancellation function Subscribe returned: the manager drops the sink.
CancelSub(h) == subs' = subs \ {h}

\* chromium.go:412-414, the handler subscribes once the flags file is
\* written, before it starts the restart.
UpSubscribe(h) ==
    /\ up[h].pc = "idle"
    /\ IF h = 1 THEN TRUE ELSE up[h - 1].pc # "idle"
    /\ subs' = subs \cup {h}
    /\ UpSet(h, [pc |-> "subscribed", sink |-> Subscribe(h)])
    /\ UNCHANGED <<recVars, log, tail, cur, mp, stz, more>>

\* chromium.go:420-429, the goroutine that runs "supervisorctl restart
\* chromium" is launched; the handler goes on to its select.
UpRestart(h) ==
    /\ up[h].pc = "subscribed"
    /\ UpSet(h, [pc |-> "select", restart |-> "running",
                 trigAt |-> Len(log)])
    /\ UNCHANGED <<recVars, log, tail, cur, subs, mp, stz, more>>

\* The restarted browser writes "DevTools listening on <a fresh URL>" to the
\* supervisor log (images/*/wrapper.sh start it under supervisord).
BrowserStart(h) ==
    /\ up[h].restart = "running"
    /\ Len(log) < MaxUrls
    /\ log' = Append(log, Len(log) + 1)
    /\ UpSet(h, [restart |-> "started"])
    /\ UNCHANGED <<recVars, tail, cur, subs, mp, stz, more>>

\* chromium.go:423-428, supervisorctl returns an error (the browser did not
\* come up, or did not stay up): the error goes to errCh.
RestartFails(h) ==
    /\ up[h].restart \in {"running", "started"}
    /\ UpSet(h, [restart |-> "failed", errCh |-> TRUE])
    /\ UNCHANGED <<recVars, log, tail, cur, subs, mp, stz, more>>

\* chromium.go:433-444, the cases of the select that are ready: the
\* notification, the restart error, the 15 s timer (untimed: always).
SelectReady(h) ==
    {"timeout"}
    \cup (IF up[h].sink = "notified" THEN {"updates"} ELSE {})
    \cup (IF up[h].errCh THEN {"err"} ELSE {})

\* Mutant: the handler answers 201 whichever case ended the select.
SelectRespAlwaysCreated(c) == 201

\* chromium.go:434-443, the status each case returns.
SelectResp(c) == IF c = "updates" THEN 201 ELSE 500

\* chromium.go:439 and 442, the message of a 500.
SelectMsg(c) ==
    CASE c = "updates" -> ""
      [] c = "err" -> "supervisorctl restart failed"
      [] OTHER -> "devtools not ready in time"

\* chromium.go:431-444, the select: one of the ready cases is taken and the
\* handler returns its answer.
UpSelect(h) ==
    /\ up[h].pc = "select"
    /\ \E c \in SelectReady(h) :
          UpSet(h, [pc |-> "cancel", sel |-> c, resp |-> SelectResp(c),
                    msg |-> SelectMsg(c)])
    /\ UNCHANGED <<recVars, log, tail, cur, subs, mp, stz, more>>

\* Mutant: the handler returns without calling cancelSub.
UpCancelSkipped(h) ==
    /\ up[h].pc = "cancel"
    /\ UpSet(h, [pc |-> "done"])
    /\ UNCHANGED <<recVars, log, tail, cur, subs, mp, stz, more>>

\* chromium.go:414, the deferred cancelSub() as the handler returns.
UpCancel(h) ==
    /\ up[h].pc = "cancel"
    /\ CancelSub(h)
    /\ UpSet(h, [pc |-> "done",
                 sink |-> IF up[h].sink = "pending" THEN "cancelled"
                          ELSE up[h].sink])
    /\ UNCHANGED <<recVars, log, tail, cur, mp, stz, more>>

\* part_010:392, the server serves requests once WaitForInitial has seen
\* the URL of the first browser start.
InitUp ==
    /\ recs = [r \in Threads |-> NoRecorder]
    /\ recorders = [i \in Ids |-> 0]
    /\ fmMu = 0
    /\ files = [i \in Ids |-> NoFile]
    /\ th = [t \in Threads |-> NoThread]
    /\ log = <<1>>
    /\ tail = [pos |-> 1, runs |-> 1]
    /\ cur = 1
    /\ subs = {}
    /\ up = [h \in Handlers |-> NoUpload]
    /\ mp = MpIdle
    /\ stz = StzIdle
    /\ MoreIdle

NextUp ==
    \/ TailRead
    \/ TailRestart
    \/ \E h \in Handlers : UpSubscribe(h)
    \/ \E h \in Handlers : UpRestart(h)
    \/ \E h \in Handlers : BrowserStart(h)
    \/ \E h \in Handlers : RestartFails(h)
    \/ \E h \in Handlers : UpSelect(h)
    \/ \E h \in Handlers : UpCancel(h)

SpecUp == InitUp /\ [][NextUp]_vars


\* ------------------------------------ the multipart body of an upload
\* What a part of the body is to the parser: a zip_file field, a name field
\* with a valid name, a name field whose trimmed value is empty or does not
\* match nameRegex, a field of any other name.
PartKinds == {"zip", "name", "badname", "other"}

PartSeqs == UNION {[1..n -> PartKinds] : n \in 0..MaxParts}

\* Mutant: a pair is taken as complete as soon as its zip has arrived.
PairCompleteOnZip(z, n) == z

\* chromium.go:340, both fields of the pair have arrived.
PairComplete(z, n) == z /\ n

\* The parser's locals after a part was taken without an error: a complete
\* pair is appended to items and current reset (chromium.go:339-343).
MpTaken(z, n) ==
    IF PairComplete(z, n)
    THEN [mp EXCEPT !.i = @ + 1, !.items = @ + 1, !.open = FALSE,
                    !.zipReceived = FALSE, !.name = FALSE]
    ELSE [mp EXCEPT !.i = @ + 1, !.open = TRUE, !.zipReceived = z,
                    !.name = n]

\* The handler returns during parsing: 400 for what the client sent
\* ("bad"), 400 or 500 after a failed read ("fail").
MpReturn(p, code) == [mp EXCEPT !.pc = p, !.resp = code]

\* chromium.go:289-344, one round of the loop: NextPart, then the field by
\* its name.  With no current pair a new one is opened (lines 299-301).
\* Reading may fail: NextPart (400, line 296), the copy of the zip or the
\* read of the name (500, lines 304-317 and 324-328).
MpPart ==
    /\ mp.pc = "parse"
    /\ mp.i < Len(mp.parts)
    /\ LET kind == mp.parts[mp.i + 1]
           z == mp.open /\ mp.zipReceived
           n == mp.open /\ mp.name
       IN \E io \in {"ok", "next", "read"} :
             mp' = CASE io = "next" -> MpReturn("fail", 400)
                     [] io = "read" /\ kind # "other" -> MpReturn("fail", 500)
                     [] io = "read" /\ kind = "other" -> MpReturn("bad", 400)
                     [] io = "ok" /\ kind = "zip" ->
                           IF z THEN MpReturn("bad", 400)
                           ELSE MpTaken(TRUE, n)
                     [] io = "ok" /\ kind = "name" ->
                           IF n THEN MpReturn("bad", 400)
                           ELSE MpTaken(z, TRUE)
                     [] OTHER -> MpReturn("bad", 400)
    /\ UNCHANGED <<recVars, upVars, stz, more>>

\* chromium.go:291-294 and 346-354, io.EOF ends the loop: an open pair or
\* no pair at all is answered 400.
MpEnd ==
    /\ mp.pc = "parse"
    /\ mp.i = Len(mp.parts)
    /\ mp' = IF mp.open \/ mp.items = 0
             THEN MpReturn("bad", 400)
             ELSE [mp EXCEPT !.pc = "unpack"]
    /\ UNCHANGED <<recVars, upVars, stz, more>>

\* Mutant: a zip that does not unpack is skipped.
UnzipErrorSkipped == [mp EXCEPT !.unpacked = @ + 1, !.zipFailed = TRUE]

\* chromium.go:369-372, Unzip fails: 400 "invalid zip file".
UnzipError ==
    [MpReturn("fail", 400) EXCEPT !.msg = "invalid zip file",
                                  !.zipFailed = TRUE]

\* chromium.go:359-377, the items are unpacked one by one; a zip that does
\* not unpack is answered 400, a failed mkdir or chown 500.  After the last
\* item the handler goes on to the flags file.
MpUnpack ==
    /\ mp.pc = "unpack"
    /\ IF mp.unpacked = mp.items
       THEN mp' = [mp EXCEPT !.pc = "ok"]
       ELSE \E r \in {"ok", "zip", "os"} :
               mp' = CASE r = "ok" -> [mp EXCEPT !.unpacked = @ + 1]
                       [] r = "zip" -> UnzipError
                       [] OTHER -> MpReturn("fail", 500)
    /\ UNCHANGED <<recVars, upVars, stz, more>>

\* chromium.go:379-410, the flags file: the existing tokens are read and
\* merged with the new ones, the directory made and the file written; each
\* of the three may fail (500).
MpWriteFlags ==
    /\ mp.pc = "ok"
    /\ \E r \in {"ok", "read", "mkdir", "write"} :
          mp' = IF r = "ok"
                THEN [mp EXCEPT !.pc = "written", !.flagsWritten = TRUE]
                ELSE MpReturn("fail", 500)
    /\ UNCHANGED <<recVars, upVars, stz, more>>

\* chromium.go:412-429, the handler subscribes to the upstream manager and
\* launches the restart of the browser.
MpRestart ==
    /\ mp.pc = "written"
    /\ mp' = [mp EXCEPT !.pc = "restarting", !.restart = TRUE]
    /\ UNCHANGED <<recVars, upVars, stz, more>>

\* chromium.go:251-268, an upload arrives with its body.
InitMp ==
    /\ recs = [r \in Threads |-> NoRecorder]
    /\ recorders = [i \in Ids |-> 0]
    /\ fmMu = 0
    /\ files = [i \in Ids |-> NoFile]
    /\ th = [t \in Threads |-> NoThread]
    /\ UpIdle
    /\ mp \in {[MpIdle EXCEPT !.pc = "parse", !.parts = q] : q \in PartSeqs}
    /\ stz = StzIdle
    /\ MoreIdle

NextMp ==
    \/ MpPart
    \/ MpEnd
    \/ MpUnpack
    \/ MpWriteFlags
    \/ MpRestart

SpecMp == InitMp /\ [][NextMp]_vars


\* ------------------------------------------------ the idle controller
\* The debounced controller: a counter of holders and the state last
\* written, both changed under its lock, which it holds across the write
\* of the inner writer.  plus and minus count the calls of the inner
\* Disable and Enable (scaletozero_test.go:107-128, mockScaleToZeroer);
\* calls and peak (the highest counter so far) are history.

\* Mutant: Disable writes on every call.
DisableWritesAlways(c, l) == TRUE

\* Disable writes "+" on the transition from 0 holders, unless "+" is what
\* was written last.
DisableWrites(c, l) == c = 0 /\ l # "+"

\* Mutant: Enable writes whenever no holder is left.
EnableWritesAtZero(c, l) == c = 0

\* Enable writes "-" when no holder is left and "+" was written last.
EnableWrites(c, l) == c = 0 /\ l = "+"

Max(a, b) == IF a >= b THEN a ELSE b

\* Mutant: a Disable whose write failed keeps its increment.
DisableFailedCountKept(c) == c + 1

\* The counter after a Disable whose write failed: rolled back
\* (scaletozero_test.go:50-67).
DisableFailedCount(c) == c

\* Mutant: a failed "-" write is recorded as written.
EnableFailedLastWritten(l) == "-"

\* The state last written after an Enable whose write failed: not updated,
\* so that a retry writes again (scaletozero_test.go:69-85).
EnableFailedLast(l) == l

\* A call as the history keeps it: the counter before and after, whether
\* the inner writer was called, whether the call returned an error.
StzCall(op, c1, w, e) ==
    [op |-> op, c0 |-> stz.count, c1 |-> c1, wrote |-> w, err |-> e]

\* Disable(ok): the controller after a Disable whose inner write, if there
\* is one, succeeds (ok) or fails.
AfterDisable(ok) ==
    LET w == DisableWrites(stz.count, stz.last)
        e == w /\ ~ok
        c1 == IF e THEN DisableFailedCount(stz.count) ELSE stz.count + 1
    IN [stz EXCEPT !.count = c1, !.calls = @ + 1, !.peak = Max(@, c1),
                   !.plus = IF w THEN @ + 1 ELSE @,
                   !.last = IF w /\ ok THEN "+" ELSE @,
                   !.failed = @ \/ e,
                   !.hist = Append(@, StzCall("Disable", c1, w, e))]

\* Enable(ok): the controller after an Enable; the counter goes down if it
\* is positive, and without a Disable before nothing is written
\* (scaletozero_test.go:87-93).
AfterEnable(ok) ==
    LET c1 == IF stz.count > 0 THEN stz.count - 1 ELSE 0
        w == EnableWrites(c1, stz.last)
        e == w /\ ~ok
    IN [stz EXCEPT !.count = c1, !.calls = @ + 1,
                   !.minus = IF w THEN @ + 1 ELSE @,
                   !.last = IF ~w THEN @
                            ELSE IF ok THEN "-" ELSE EnableFailedLast(@),
                   !.failed = @ \/ e,
                   !.hist = Append(@, StzCall("Enable", c1, w, e))]

\* Disable(), under the controller's lock.
StzDisable ==
    /\ stz.calls < MaxCalls
    /\ \E ok \in BOOLEAN : stz' = AfterDisable(ok)
    /\ UNCHANGED <<recVars, upVars, mp, more>>

\* Enable(), under the controller's lock.
StzEnable ==
    /\ stz.calls < MaxCalls
    /\ \E ok \in BOOLEAN : stz' = AfterEnable(ok)
    /\ UNCHANGED <<recVars, upVars, mp, more>>

\* NewDebouncedController(mock), scaletozero_test.go:14-15.
InitStz ==
    /\ recs = [r \in Threads |-> NoRecorder]
    /\ recorders = [i \in Ids |-> 0]
    /\ fmMu = 0
    /\ files = [i \in Ids |-> NoFile]
    /\ th = [t \in Threads |-> NoThread]
    /\ UpIdle
    /\ mp = MpIdle
    /\ stz = StzIdle
    /\ MoreIdle

NextStz ==
    \/ StzDisable
    \/ StzEnable

SpecStz == InitStz /\ [][NextStz]_vars

\* ------------------------------------- long operations and the idle lease
\* chromium.go:255, s.stz.Disable(ctx): the operation takes the lease; the
\* error Disable returns is not looked at.
OpDisable(o) ==
    /\ ops[o] = "idle"
    /\ stz.calls < MaxCalls
    /\ \E ok \in BOOLEAN : stz' = AfterDisable(ok)
    /\ ops' = [ops EXCEPT ![o] = "held"]
    /\ UNCHANGED <<recVars, upVars, mp, mf, ws, tl, br>>

\* chromium.go:256, the deferred s.stz.Enable(ctx) as the handler returns;
\* the next request of this goroutine may follow.
OpEnable(o) ==
    /\ ops[o] = "held"
    /\ stz.calls < MaxCalls
    /\ \E ok \in BOOLEAN : stz' = AfterEnable(ok)
    /\ ops' = [ops EXCEPT ![o] = "idle"]
    /\ UNCHANGED <<recVars, upVars, mp, mf, ws, tl, br>>

NextLease ==
    \/ \E o \in Handlers : OpDisable(o)
    \/ \E o \in Handlers : OpEnable(o)

SpecLease == InitStz /\ [][NextLease]_vars


\* ------------------------------------------- the merge of Chromium flags
\* A token by what parseTokenStream makes of it (part_014:38-54): a
\* "--load-extension=" or "--disable-extensions-except=" token with the
\* comma-separated items of its value, "--disable-extensions", any other
\* token ("flag"), or the empty string.
Tok(k, v) == [k |-> k, v |-> v]

Tokens ==
    {Tok("flag", <<"f1">>), Tok("flag", <<"f2">>), Tok("empty", <<>>),
     Tok("disable", <<>>),
     Tok("load", <<"e1">>), Tok("load", <<"e2", "", "e1">>),
     Tok("except", <<"e1">>), Tok("except", <<"e2", "e1">>)}

TokenLists == UNION {[1..n -> Tokens] : n \in 0..MaxTokens}

\* part_014:27-33, appendCSVInto: the non-empty items of a value.
appendCSVInto(dst, csv) == dst \o SelectSeq(csv, LAMBDA x : x # "")

\* part_014:38-54, parseTokenStream: the bucket of one directive ...
RECURSIVE Bucket(_, _)
Bucket(tokens, k) ==
    IF tokens = <<>> THEN <<>>
    ELSE LET rest == Bucket(SubSeq(tokens, 1, Len(tokens) - 1), k)
             tok == tokens[Len(tokens)]
         IN IF tok.k = k THEN appendCSVInto(rest, tok.v) ELSE rest

\* ... whether the stream has "--disable-extensions" ...
DisableAll(tokens) == \E n \in 1..Len(tokens) : tokens[n].k = "disable"

\* ... and the tokens that are none of the three (the default case).
NonExt(tokens) == SelectSeq(tokens, LAMBDA t : t.k \in {"flag", "empty"})

\* The first occurrences of a list, in order (part_014:58-69, 161-172).
RECURSIVE FirstSeen(_)
FirstSeen(q) ==
    IF q = <<>> THEN <<>>
    ELSE LET rest == FirstSeen(SubSeq(q, 1, Len(q) - 1))
             x == q[Len(q)]
         IN IF \E n \in 1..Len(rest) : rest[n] = x THEN rest
            ELSE Append(rest, x)

\* Mutant: the union keeps the runtime's items only.
unionRuntimeOnly(base, rt) == FirstSeen(SelectSeq(rt, LAMBDA x : x # ""))

\* part_014:57-71, union: base then runtime, no empty string, no duplicate.
union(base, rt) == FirstSeen(SelectSeq(base \o rt, LAMBDA x : x # ""))

\* Mutant: the base's --disable-extensions is kept whatever the runtime loads.
KeepBaseDisableAlways(base, rt) == DisableAll(base)

\* part_014:148, the base's --disable-extensions is kept.
KeepBaseDisable(base, rt) == DisableAll(base) /\ Bucket(rt, "load") = <<>>

\* Mutant: the runtime's --disable-extensions is added to the directives.
RuntimeDisableAdds(base, rt, others) ==
    IF DisableAll(rt) THEN <<Tok("disable", <<>>)>> \o others ELSE others

\* part_014:145-147, the runtime's --disable-extensions overrides the rest.
RuntimeDisableWins(base, rt, others) ==
    IF DisableAll(rt) THEN <<Tok("disable", <<>>)>> ELSE others

\* part_014:144-156, the extension directives of the merged list.
ExtFlags(base, rt) ==
    LET mergedLoad == union(Bucket(base, "load"), Bucket(rt, "load"))
        mergedExcept == union(Bucket(base, "except"), Bucket(rt, "except"))
    IN RuntimeDisableWins(base, rt,
          (IF KeepBaseDisable(base, rt) THEN <<Tok("disable", <<>>)>>
           ELSE IF Len(mergedLoad) > 0 THEN <<Tok("load", mergedLoad)>>
           ELSE <<>>)
          \o (IF Len(mergedExcept) > 0 THEN <<Tok("except", mergedExcept)>>
              ELSE <<>>))

\* Mutant: the combined list is returned as it is.
FinalAsCombined(combined) == combined

\* part_014:161-172, the final list: no empty token, first occurrences only.
Final(combined) ==
    FirstSeen(SelectSeq(combined, LAMBDA t : t.k # "empty"))

\* part_014:133-172, the merge of the base and the runtime token list
\* (chromiumflags.MergeFlags, as chromiumflags_test.go:244-328 calls it).
MergeFlags(base, rt) ==
    Final(NonExt(base) \o NonExt(rt) \o ExtFlags(base, rt))

\* The lists are merged ...
Merge ==
    /\ mf.pc = "input"
    /\ mf' = [mf EXCEPT !.pc = "merged",
                        !.out = MergeFlags(mf.base, mf.overlay)]
    /\ UNCHANGED <<recVars, upVars, mp, stz, ops, ws, tl, br>>

\* ... and the result merged again with an empty runtime list.
MergeAgain ==
    /\ mf.pc = "merged"
    /\ mf' = [mf EXCEPT !.pc = "again", !.again = MergeFlags(mf.out, <<>>)]
    /\ UNCHANGED <<recVars, upVars, mp, stz, ops, ws, tl, br>>

\* part_014:117-119, the two token lists, any tokens.
InitMerge ==
    /\ recs = [r \in Threads |-> NoRecorder]
    /\ recorders = [i \in Ids |-> 0]
    /\ fmMu = 0
    /\ files = [i \in Ids |-> NoFile]
    /\ th = [t \in Threads |-> NoThread]
    /\ UpIdle
    /\ mp = MpIdle
    /\ stz = StzIdle
    /\ ops = [o \in Handlers |-> "idle"]
    /\ mf \in {[MfIdle EXCEPT !.pc = "input", !.base = b, !.overlay = o] :
                  b \in TokenLists, o \in TokenLists}
    /\ ws = [c \in Sessions |-> NoSession]
    /\ tl = TlIdle
    /\ br = BrIdle

NextMerge ==
    \/ Merge
    \/ MergeAgain

SpecMerge == InitMerge /\ [][NextMerge]_vars


\* ------------------------------------------- the WebSocket bridge
\* The Host headers of the requests.
Hosts == {"proxy:9222", "other:80"}

\* Mutant: the handlers go on without an upstream URL.
UpstreamNotReadyNever(current) == FALSE

\* proxy.go:153 and part_010:413, the test for 503 "upstream not ready".
UpstreamNotReady(current) == current = 0

\* proxy.go:152-161, a request for the WebSocket arrives: 503 when no
\* upstream URL is known, 500 when the URL does not parse.
WsRequest(c) ==
    /\ ws[c].pc = "idle"
    /\ \E parses \in BOOLEAN :
          ws' = [ws EXCEPT ![c] =
                    IF UpstreamNotReady(Current)
                    THEN [@ EXCEPT !.path = "ws", !.seen = Current,
                                   !.pc = "done", !.end = "notready",
                                   !.status = 503]
                    ELSE IF ~parses
                    THEN [@ EXCEPT !.path = "ws", !.seen = Current,
                                   !.pc = "done", !.end = "invalid",
                                   !.status = 500]
                    ELSE [@ EXCEPT !.path = "ws", !.seen = Current,
                                   !.pc = "upgrade"]]
    /\ UNCHANGED <<recVars, upVars, mp, stz, ops, mf, tl, br>>

\* proxy.go:171-175, the upgrade of the client's connection.
WsUpgrade(c) ==
    /\ ws[c].pc = "upgrade"
    /\ \E ok \in BOOLEAN :
          ws' = [ws EXCEPT ![c] =
                    IF ok
                    THEN [@ EXCEPT !.pc = "dial",
                                   !.tried = @ \cup {"upgrade"}]
                    ELSE [@ EXCEPT !.pc = "done", !.end = "noupgrade",
                                   !.tried = @ \cup {"upgrade"}]]
    /\ UNCHANGED <<recVars, upVars, mp, stz, ops, mf, tl, br>>

\* proxy.go:188-193 and 296-340, the dial of the upstream: on failure the
\* client's connection is closed; on success the two copying goroutines
\* are started.
WsDial(c) ==
    /\ ws[c].pc = "dial"
    /\ \E ok \in BOOLEAN :
          ws' = [ws EXCEPT ![c] =
                    IF ok
                    THEN [@ EXCEPT !.pc = "bridge", !.c2u = "run",
                                   !.u2c = "run",
                                   !.tried = @ \cup {"dial"}]
                    ELSE [@ EXCEPT !.pc = "done", !.end = "nodial",
                                   !.clientClosed = @ + 1,
                                   !.tried = @ \cup {"dial"}]]
    /\ UNCHANGED <<recVars, upVars, mp, stz, ops, mf, tl, br>>

\* proxy.go:299-319, the client-to-upstream goroutine: a read or a write
\* fails (an error, the peer's close, a connection closed by the cleanup);
\* the error goes to errChan (capacity 2) and the goroutine ends.
WsClientToUpstreamFails(c) ==
    /\ ws[c].c2u = "run"
    /\ ws[c].errs < errChanCap
    /\ ws' = [ws EXCEPT ![c].c2u = "done", ![c].errs = @ + 1]
    /\ UNCHANGED <<recVars, upVars, mp, stz, ops, mf, tl, br>>

\* proxy.go:320-340, the upstream-to-client goroutine, the same.
WsUpstreamToClientFails(c) ==
    /\ ws[c].u2c = "run"
    /\ ws[c].errs < errChanCap
    /\ ws' = [ws EXCEPT ![c].u2c = "done", ![c].errs = @ + 1]
    /\ UNCHANGED <<recVars, upVars, mp, stz, ops, mf, tl, br>>

\* Mutant: the cleanup closes the upstream connection only.
CleanupUpstreamOnly(w) ==
    IF w.once THEN w
    ELSE [w EXCEPT !.once = TRUE, !.upClosed = @ + 1]

\* proxy.go:201-207, cleanup: once, both connections are closed.
Cleanup(w) ==
    IF w.once THEN w
    ELSE [w EXCEPT !.once = TRUE, !.upClosed = @ + 1,
                   !.clientClosed = @ + 1]

\* proxy.go:342-346, the handler's select: the context is done or an error
\* is taken from errChan; then onClose().
WsSelect(c) ==
    /\ ws[c].pc = "bridge"
    /\ \E sel \in {"ctx", "err"} :
          /\ sel = "err" => ws[c].errs > 0
          /\ ws' = [ws EXCEPT ![c] =
                       Cleanup([@ EXCEPT !.pc = "done", !.end = sel,
                                  !.errs = IF sel = "err" THEN @ - 1 ELSE @])]
    /\ UNCHANGED <<recVars, upVars, mp, stz, ops, mf, tl, br>>

\* part_010:419, the URL that /json/version returns: scheme ws, the host
\* of the request.
VersionUrl(host) == [scheme |-> "ws", host |-> host]

\* part_010:412-423, GET /json/version.
JsonVersion(c, host) ==
    /\ ws[c].pc = "idle"
    /\ ws' = [ws EXCEPT ![c] =
                 IF UpstreamNotReady(Current)
                 THEN [@ EXCEPT !.path = "version", !.host = host,
                                !.seen = Current, !.pc = "done",
                                !.end = "notready", !.status = 503]
                 ELSE [@ EXCEPT !.path = "version", !.host = host,
                                !.seen = Current, !.pc = "done",
                                !.end = "version", !.status = 200,
                                !.url = VersionUrl(host)]]
    /\ UNCHANGED <<recVars, upVars, mp, stz, ops, mf, tl, br>>

\* The proxy before the tailer has read the browser's DevTools line.
InitWs ==
    /\ recs = [r \in Threads |-> NoRecorder]
    /\ recorders = [i \in Ids |-> 0]
    /\ fmMu = 0
    /\ files = [i \in Ids |-> NoFile]
    /\ th = [t \in Threads |-> NoThread]
    /\ cur = 0
    /\ log = <<1>>
    /\ tail = [pos |-> 0, runs |-> 1]
    /\ subs = {}
    /\ up = [h \in Handlers |-> NoUpload]
    /\ mp = MpIdle
    /\ stz = StzIdle
    /\ MoreIdle

NextWs ==
    \/ TailRead
    \/ \E c \in Sessions, host \in Hosts : JsonVersion(c, host)
    \/ \E c \in Sessions : WsRequest(c)
    \/ \E c \in Sessions : WsUpgrade(c)
    \/ \E c \in Sessions : WsDial(c)
    \/ \E c \in Sessions : WsClientToUpstreamFails(c)
    \/ \E c \in Sessions : WsUpstreamToClientFails(c)
    \/ \E c \in Sessions : WsSelect(c)

SpecWs == InitWs /\ [][NextWs]_vars

\* A copying goroutine whose connection the cleanup has closed gets an
\* error from its read or its write and goes on to report it.
SpecWsFair ==
    /\ SpecWs
    /\ \A c \in Sessions :
          /\ WF_vars(ws[c].once /\ WsClientToUpstreamFails(c))
          /\ WF_vars(ws[c].once /\ WsUpstreamToClientFails(c))


\* ------------------------------- the upstream manager's tail loop
\* A line of the log: n > 0 is "DevTools listening on <URL n>", -n is a
\* line that names URL n without being a DevTools line.
TailLines == {0 - 1, 1, 2}

\* Mutant: a line that names a URL in any way matches.
MatchAnyUrl(line) ==
    IF line > 0 THEN <<line, line>> ELSE <<line, 0 - line>>

\* proxy.go:22 and 139, devtoolsListeningRegexp.FindStringSubmatch: the
\* whole match and the captured URL, or nothing.
FindStringSubmatch(line) == IF line > 0 THEN <<line, line>> ELSE <<>>

\* The context tailLoop runs under (derived at proxy.go:46) is done.
CtxDone == tl.parent \/ tl.cancelled

\* proxy.go:44-50, Start: the first call makes the cancel function and
\* launches tailLoop.
MgrStart ==
    /\ tl.calls < MaxMgrCalls
    /\ tl' = IF tl.startOnce
             THEN [tl EXCEPT !.calls = @ + 1]
             ELSE [tl EXCEPT !.calls = @ + 1, !.startOnce = TRUE,
                             !.cancelTail = TRUE, !.launched = @ + 1,
                             !.pc = "check"]
    /\ UNCHANGED <<recVars, upVars, mp, stz, ops, mf, ws, br>>

\* proxy.go:53-59, Stop: the first call calls cancelTail if it is set.
MgrStop ==
    /\ tl.calls < MaxMgrCalls
    /\ tl' = IF tl.stopOnce
             THEN [tl EXCEPT !.calls = @ + 1,
                             !.stopAfter = @ \/ tl.startOnce]
             ELSE [tl EXCEPT !.calls = @ + 1, !.stopOnce = TRUE,
                             !.cancelled = tl.cancelTail,
                             !.stopAfter = @ \/ tl.startOnce]
    /\ UNCHANGED <<recVars, upVars, mp, stz, ops, mf, ws, br>>

\* The context given to Start is cancelled.
CtxCancel ==
    /\ ~tl.parent
    /\ tl' = [tl EXCEPT !.parent = TRUE]
    /\ UNCHANGED <<recVars, upVars, mp, stz, ops, mf, ws, br>>

\* proxy.go:92-96 and 109-125, the head of the loop: return when the
\* context is done, else start a tail session, which reads the log from its
\* first line; the tail may fail to start.
TailLoopTop ==
    /\ tl.pc = "check"
    /\ IF CtxDone
       THEN /\ tl' = [tl EXCEPT !.pc = "ended"]
            /\ UNCHANGED tail
       ELSE /\ tl.sleeps < MaxSleeps
            /\ \E ok \in BOOLEAN :
                  IF ok
                  THEN /\ tl' = [tl EXCEPT !.pc = "session",
                                           !.matched = FALSE]
                       /\ tail' = [pos |-> 0, runs |-> tail.runs + 1]
                  ELSE /\ tl' = [tl EXCEPT !.pc = "sleep", !.matched = FALSE]
                       /\ UNCHANGED tail
    /\ UNCHANGED <<recVars, log, cur, subs, up, mp, stz, ops, mf, ws, br>>

\* proxy.go:131-141, the scanner yields the next line; a DevTools line goes
\* to setCurrent.
TailScan ==
    /\ tl.pc = "session"
    /\ ~CtxDone
    /\ tail.pos < Len(log)
    /\ LET matches == FindStringSubmatch(log[tail.pos + 1]) IN
          IF Len(matches) = 2
          THEN /\ setCurrent(matches[2])
               /\ tl' = [tl EXCEPT !.matched = TRUE]
          ELSE UNCHANGED <<cur, up, tl>>
    /\ tail' = [tail EXCEPT !.pos = @ + 1]
    /\ UNCHANGED <<recVars, log, subs, mp, stz, ops, mf, ws, br>>

\* proxy.go:126-129, 133-136 and 142-144, the session ends: the context is
\* done (the tail is killed), the tail exits or the scanner fails.
TailSessionEnds ==
    /\ tl.pc = "session"
    /\ tl' = [tl EXCEPT !.pc = "sleep"]
    /\ UNCHANGED <<recVars, upVars, mp, stz, ops, mf, ws, br>>

\* Mutant: the delay doubles without a cap.
BackoffDoubled(b) == 2 * b

\* proxy.go:103-106, the delay of the next sleep.
BackoffNext(b) == IF b < MaxBackoff THEN 2 * b ELSE b

\* proxy.go:97-106, the select between the context and the timer, then the
\* new delay.
TailSleep ==
    /\ tl.pc = "sleep"
    /\ \E fired \in {"ctx", "timer"} :
          IF fired = "ctx"
          THEN /\ CtxDone
               /\ tl' = [tl EXCEPT !.pc = "ended"]
          ELSE tl' = [tl EXCEPT !.pc = "check", !.sleeps = @ + 1,
                                !.slept = tl.backoff,
                                !.backoff = BackoffNext(@)]
    /\ UNCHANGED <<recVars, upVars, mp, stz, ops, mf, ws, br>>

\* A new manager, a log of any lines, and sinks that wait for a change.
InitTail ==
    /\ recs = [r \in Threads |-> NoRecorder]
    /\ recorders = [i \in Ids |-> 0]
    /\ fmMu = 0
    /\ files = [i \in Ids |-> NoFile]
    /\ th = [t \in Threads |-> NoThread]
    /\ log \in [1..MaxLines -> TailLines]
    /\ tail = [pos |-> 0, runs |-> 0]
    /\ cur = 0
    /\ subs = Handlers
    /\ up = [h \in Handlers |->
               [NoUpload EXCEPT !.pc = "subscribed", !.sink = Subscribe(h)]]
    /\ mp = MpIdle
    /\ stz = StzIdle
    /\ MoreIdle

NextTail ==
    \/ MgrStart
    \/ MgrStop
    \/ CtxCancel
    \/ TailLoopTop
    \/ TailScan
    \/ TailSessionEnds
    \/ TailSleep

SpecTail == InitTail /\ [][NextTail]_vars


\* ------------------------------- the messages a bridge copies
\* A message as ReadMessage returns it: its opcode and its payload.
Msgs == {[mt |-> "text", p |-> "a"], [mt |-> "binary", p |-> "b"]}

MsgSeqs == UNION {[1..n -> Msgs] : n \in 0..MaxMsgs}

\* proxy.go:219-294, logCDPMessage: one log record for a text message,
\* none for any other; the message is only read.
logCDPMessage(m) == IF m.mt = "text" THEN 1 ELSE 0

\* Mutant: every message is written as a text message.
WrittenAsText(m) == [m EXCEPT !.mt = "text"]

\* proxy.go:314 and 335, WriteMessage(mt, msg): what is written for a
\* message read.
Written(m) == m

\* proxy.go:301-312 and 322-333, a goroutine reads the next message of its
\* source and, with logging enabled, logs it.
CopyRead(d) ==
    /\ br.st[d] = "run"
    /\ br.held[d] = NoMsg
    /\ br.n[d] < Len(br.src[d])
    /\ LET m == br.src[d][br.n[d] + 1] IN
          br' = [br EXCEPT !.n[d] = @ + 1, !.held[d] = m,
                           !.logged[d] =
                              IF br.logging THEN @ + logCDPMessage(m) ELSE @]
    /\ UNCHANGED <<recVars, upVars, mp, stz, ops, mf, ws, tl>>

\* proxy.go:314-318 and 335-339, the message is written to the other side;
\* a failed write ends the goroutine.
CopyWrite(d) ==
    /\ br.st[d] = "run"
    /\ br.held[d] # NoMsg
    /\ \E ok \in BOOLEAN :
          br' = IF ok
                THEN [br EXCEPT !.out[d] = Append(@, Written(br.held[d])),
                                !.held[d] = NoMsg]
                ELSE [br EXCEPT !.st[d] = "done"]
    /\ UNCHANGED <<recVars, upVars, mp, stz, ops, mf, ws, tl>>

\* proxy.go:301-306 and 322-327, a failed read (an error, the peer's close,
\* the cleanup) ends the goroutine.
CopyReadFails(d) ==
    /\ br.st[d] = "run"
    /\ br.held[d] = NoMsg
    /\ br' = [br EXCEPT !.st[d] = "done"]
    /\ UNCHANGED <<recVars, upVars, mp, stz, ops, mf, ws, tl>>

\* proxy.go:296-340, a bridge is started, with or without logging; each
\* peer has some messages to send.
InitCopy ==
    /\ recs = [r \in Threads |-> NoRecorder]
    /\ recorders = [i \in Ids |-> 0]
    /\ fmMu = 0
    /\ files = [i \in Ids |-> NoFile]
    /\ th = [t \in Threads |-> NoThread]
    /\ UpIdle
    /\ mp = MpIdle
    /\ stz = StzIdle
    /\ ops = [o \in Handlers |-> "idle"]
    /\ mf = MfIdle
    /\ ws = [c \in Sessions |-> NoSession]
    /\ tl = TlIdle
    /\ br \in {[BrIdle EXCEPT !.pc = "bridge", !.logging = l,
                              !.src = [d \in Dirs |->
                                         IF d = "c2u" THEN a ELSE b],
                              !.st = [d \in Dirs |-> "run"]] :
                  l \in BOOLEAN, a \in MsgSeqs, b \in MsgSeqs}

NextCopy ==
    \/ \E d \in Dirs : CopyRead(d)
    \/ \E d \in Dirs : CopyWrite(d)
    \/ \E d \in Dirs : CopyReadFails(d)

SpecCopy == InitCopy /\ [][NextCopy]_vars


\* ================================================================ claims
\* The state of a recorder as its fields show it (ffmpeg.go:188).
RecState(r) ==
    IF ~recs[r].cmd THEN "Idle"
    ELSE IF recs[r].exitCode < 0 THEN "Running" ELSE "Exited"

\* C1: under every interleaving of Start, Stop, ForceStop and the exit of
\* the subprocess, a recorder's state changes only from Idle to Running and
\* from Running to Exited; it never leaves Exited, so IsRecording, once
\* false after having been true, is never true again.
C1_Lifecycle ==
    [][\A r \in Threads :
          \/ RecState(r)' = RecState(r)
          \/ RecState(r) = "Idle" /\ RecState(r)' = "Running"
          \/ RecState(r) = "Running" /\ RecState(r)' = "Exited"]_vars

\* C1 witness: the recorder is Exited and a Start called on it after that
\* has returned its error (the rejected Start is what keeps fr.mu).
C1_Witness ==
    \E t \in Threads :
       /\ th[t].op = "Start" /\ th[t].pc = "done" /\ th[t].err
       /\ RecState(1) = "Exited"
       /\ recs[1].mu = t

\* The request t has registered the recorder it made and has not
\* deregistered it.
Holds(t) ==
    /\ th[t].op = "StartRecording"
    /\ th[t].rec = t
    /\ ~(th[t].pc = "done" /\ th[t].resp = 500)

\* C2: the registry holds at most one recorder per id: a registered recorder
\* stays the entry of its id, under its own id, until the handler that
\* registered it deregisters it; and RegisterRecorder for an id that has an
\* entry fails as a duplicate and leaves the registry unchanged.
C2_RegistryUnique ==
    /\ [](\A t \in Threads : Holds(t) =>
             /\ recorders[th[t].id] = t
             /\ recs[t].id = th[t].id)
    /\ [][\A t \in Threads :
             (th[t].op = "none" /\ th'[t].op = "StartRecording"
              /\ recorders[th'[t].id] # 0)
             => (recorders' = recorders /\ th'[t].pc = "sr_get")]_vars

\* C2 witness: a second StartRecording for the id found the entry of the
\* first and took the duplicate path.
C2_Witness ==
    \E t, u \in Threads :
       /\ t # u
       /\ Holds(u)
       /\ th[t].op = "StartRecording" /\ th[t].id = th[u].id
       /\ th[t].pc = "sr_get"

\* C3: for every id at most one encoder subprocess is alive at any time,
\* also after a failed start has deregistered its recorder and the id has
\* been registered again.
C3_OneEncoderPerId ==
    \A r, q \in Threads :
       (r # q /\ recs[r].made /\ recs[q].made /\ recs[r].id = recs[q].id
        /\ recs[r].proc = "alive")
       => recs[q].proc # "alive"

\* C3 witness: the encoder of a first recorder has ended, its failed start
\* has deregistered it, and the encoder of a second recorder of the same id
\* is alive.
C3_Witness ==
    \E r, q \in Threads :
       /\ r # q /\ recs[r].id = recs[q].id
       /\ recs[r].proc \in {"exited", "signaled"}
       /\ th[r].pc = "done" /\ th[r].resp = 500
       /\ recs[q].proc = "alive"
       /\ recorders[recs[q].id] = q


\* C4: of two StartRecording requests for the same id of which one is
\* answered 201, the other is answered 409 (here: while the encoder of the
\* first is still alive, so the recording is in progress all along).
C4_SecondStartConflict ==
    \A t, u \in Threads :
       (/\ t # u
        /\ th[t].op = "StartRecording" /\ th[u].op = "StartRecording"
        /\ th[t].id = th[u].id
        /\ th[t].pc = "done" /\ th[u].pc = "done"
        /\ th[t].resp = 201
        /\ recs[t].proc = "alive")
       => th[u].resp = 409

\* C5: a graceful StopRecording that found the recorder Running, after its
\* StartRecording was answered 201, is answered 200 and leaves the recorder
\* Exited (here: once the encoder has ended and the waiter has run), so that
\* a download can follow.
C5_StopLeavesExited ==
    \A t \in Threads :
       (/\ th[t].op = "StopRecording" /\ th[t].pc = "done"
        /\ ~th[t].force
        /\ th[t].arrRunning
        /\ recs[th[t].rec].waiter = "done")
       => (th[t].resp = 200 /\ RecState(th[t].rec) = "Exited")

GracefulPcs == {"gs_lock", "gs_check", "gs_phase", "gs_wait"}

IsPrefix(p, q) == Len(p) <= Len(q) /\ \A n \in 1..Len(p) : p[n] = q[n]

\* C6: a graceful Stop signals in the order CONT, INT, TERM, KILL, and has
\* sent the signals of a later phase only after the wait of the phase
\* before ran to its full timeout.
C6_EscalatesAfterTimeout ==
    \A t \in Threads :
       th[t].pc \in GracefulPcs =>
          /\ IsPrefix(th[t].sent, <<"CONT", "INT", "TERM", "KILL">>)
          /\ (th[t].phase > 1 => th[t].waitRes = "timeout")

\* C7: once the caller's context is cancelled, a graceful Stop sends no
\* further signal: no TERM and no KILL follow the cancellation.
C7_CancelSendsNothing ==
    [][\A t \in Threads :
          (th[t].pc \in GracefulPcs /\ th[t].ctx)
          => th'[t].sent = th[t].sent \/ th'[t].pc = "done"
             \/ th'[t].pc = "sa_loop"]_vars

\* C8: once the encoder has ended, by an exit or by a signal, and the
\* waiter has run, the recorder is Exited: endTime is set, the exited signal
\* is closed and IsRecording is false.
C8_WaiterMakesExited ==
    \A r \in Threads :
       recs[r].waiter = "done" =>
          /\ recs[r].endTime = "set"
          /\ recs[r].exited = "closed"
          /\ ~IsRecording(r)

\* C9: a download that arrives while the recorder is Running, and whose
\* recorder is still Running with a file of at most 100 bytes when it is
\* answered, is answered 202 with Retry-After >= 1.
C9_TryAgainLater ==
    \A t \in Threads :
       (/\ th[t].op = "DownloadRecording" /\ th[t].pc = "done"
        /\ th[t].arrRunning
        /\ IsRecording(th[t].rec)
        /\ files[th[t].id] # NoFile
        /\ files[th[t].id] <= minRecordingSizeInBytes)
       => (th[t].resp = 202 /\ th[t].retryAfter >= 1)

\* C10: when Recording succeeds, the EndTime it returns is the one the
\* waiter wrote after the subprocess ended.
C10_EndTimeFromWaiter ==
    \A t \in Threads :
       th[t].pc = "dl_isrec" => th[t].endTime = "set"

\* The fields Start's section writes, as a rejected Start must leave them.
StartFields(r) ==
    <<recs[r].cmd, recs[r].proc, recs[r].exitCode, recs[r].ffmpegErr,
      recs[r].startTime, recs[r].endTime, recs[r].exited, recs[r].waiter>>

\* C11: Start on a recorder that is Running or Exited returns its
\* already-running error and leaves the recorder's state, subprocess
\* handle, timestamps and exited signal as they were.
C11_StartRejected ==
    [][\A t \in Threads :
          (/\ th[t].pc = "start_lock" /\ th'[t].pc # "start_lock"
           /\ RecState(th[t].rec) # "Idle")
          => /\ th'[t].pc = "done" /\ th'[t].err
             /\ StartFields(th[t].rec)' = StartFields(th[t].rec)]_vars

\* C11 witness: a Start called on the Running recorder has returned its
\* error while the encoder of the first Start is alive.
C11_Witness ==
    \E t \in Threads :
       /\ th[t].op = "Start" /\ th[t].pc = "done" /\ th[t].err
       /\ recs[1].mu = t
       /\ RecState(1) = "Running" /\ recs[1].proc = "alive"

\* C12: when cmd.Start() fails, the StartRecording that called Start gets
\* its error, the recorder is Idle (IsRecording false), and once the
\* handler has answered the recorder is not in the registry.
C12_SpawnFailureIdle ==
    \A t \in Threads :
       (/\ th[t].op = "StartRecording" /\ th[t].rec = t
        /\ th[t].pc \in {"sr_ret", "done"}
        /\ recs[t].cmd /\ recs[t].proc = "nil")
       => /\ IF th[t].pc = "done" THEN th[t].resp = 500 ELSE th[t].err
          /\ ~IsRecording(t)
          /\ (th[t].pc = "done" => recorders[th[t].id] # t)

\* C13: ForceStop returns its not-running error on an Idle recorder,
\* returns nil without signalling on an Exited recorder, and on a Running
\* recorder sends KILL and waits for the exited signal; the wait ends with
\* nil.
C13_ForceStop ==
    [][\A t \in Threads :
          LET r == th[t].rec IN
          /\ (th[t].pc = "force_lock" /\ th'[t].pc # "force_lock") =>
                CASE RecState(r) = "Idle" ->
                        th'[t].pc = "done" /\ th'[t].err
                  [] RecState(r) = "Exited" ->
                        /\ th'[t].pc = "done" /\ ~th'[t].err
                        /\ recs'[r].sigs = recs[r].sigs
                  [] OTHER ->
                        /\ th'[t].pc = "force_wait"
                        /\ "KILL" \in recs'[r].sigs
          /\ (th[t].pc = "force_wait" /\ th'[t].pc # "force_wait") =>
                th'[t].pc = "done" /\ ~th'[t].err]_vars

\* C14: when StopAll returns and its context was not cancelled, no
\* registered recorder is Running (here: StopAll found the recorder started
\* and answered 201, and the encoder has ended and its waiter has run).
C14_StopAllDrains ==
    [][\A t \in Threads :
          (/\ th[t].op = "Shutdown" /\ th[t].pc = "sa_loop"
           /\ th'[t].pc = "done"
           /\ th[t].arrRunning /\ ~th[t].ctx)
          => \A i \in Ids :
                (recorders'[i] # 0 /\ recs'[recorders'[i]].waiter = "done")
                => ~IsRecording(recorders[i])']_vars

C16_FreshUrlOnly ==
    \A h \in Handlers :
       up[h].resp = 201 => up[h].got > up[h].trigAt

\* C17: once a subscriber has cancelled, the upstream manager holds no
\* reference to its sink and the sink receives nothing, whatever is
\* published afterwards.
C17_CancelledNotNotified ==
    /\ [](\A h \in Handlers : up[h].pc = "done" => h \notin subs)
    /\ [][\A h \in Handlers :
             up[h].pc = "done" =>
                /\ up'[h].notifs = up[h].notifs
                /\ up'[h].sink = up[h].sink
                /\ h \notin subs']_vars

\* C17 witness: a subscriber cancelled before any change arrived, and a
\* URL logged after its subscription has been published since.
C17_Witness ==
    \E h \in Handlers :
       /\ up[h].pc = "done" /\ up[h].sink = "cancelled"
       /\ up[h].notifs = 0
       /\ Current > up[h].trigAt

\* C18: after the restart is started the handler's select can always end
\* (the timer), and it answers 201 only with a notification received, 500
\* with the restart error only when the restart command failed, and 500
\* "devtools not ready in time" otherwise.
C18_SelectOutcome ==
    \A h \in Handlers :
       /\ up[h].pc = "select" => SelectReady(h) # {}
       /\ up[h].pc \in {"cancel", "done"} =>
             /\ up[h].resp \in {201, 500}
             /\ up[h].resp = 201 =>
                   up[h].notifs >= 1 /\ up[h].msg = ""
             /\ up[h].resp = 500 =>
                   \/ up[h].msg = "devtools not ready in time"
                   \/ /\ up[h].msg = "supervisorctl restart failed"
                      /\ up[h].restart = "failed"

\* C18 witness: one upload was answered 201 on its notification, another
\* 500 on the error of its restart command.
C18_Witness ==
    \E h, g \in Handlers :
       /\ up[h].pc = "done" /\ up[h].resp = 201 /\ up[h].notifs = 1
       /\ up[g].pc = "done" /\ up[g].resp = 500
       /\ up[g].msg = "supervisorctl restart failed"

\* A non-empty concatenation of complete pairs, each one name and one zip
\* in either order.
IsPairs(q) ==
    /\ Len(q) > 0
    /\ Len(q) % 2 = 0
    /\ \A k \in 1..(Len(q) \div 2) : {q[2 * k - 1], q[2 * k]} = {"name", "zip"}

\* C19: the parser accepts a sequence of fields (and goes on to unpack)
\* exactly if it is a non-empty concatenation of complete name/zip pairs;
\* any other sequence whose parts were read without an I/O error is
\* answered 400, and nothing has been unpacked then.
C19_ParserAcceptsPairs ==
    /\ mp.pc \in {"unpack", "ok"} => IsPairs(mp.parts)
    /\ mp.pc = "bad" =>
          /\ ~IsPairs(mp.parts)
          /\ mp.resp = 400
          /\ mp.unpacked = 0

\* C19 witness: a body of two pairs, zip first in one and name first in the
\* other, has been accepted and both extensions unpacked.
C19_Witness ==
    /\ mp.pc = "ok"
    /\ mp.parts = <<"zip", "name", "name", "zip">>
    /\ mp.unpacked = 2

\* C20: while every Disable and Enable so far has succeeded, the inner
\* Disable is called exactly on the steps that take the holder counter from
\* 0 to 1 and the inner Enable exactly on the steps that take it from 1 to
\* 0; so N Disables followed by N Enables make one call of each.
C20_WritesOnTransitions ==
    /\ [][~stz'.failed =>
             /\ stz'.plus = stz.plus
                   + (IF stz.count = 0 /\ stz'.count = 1 THEN 1 ELSE 0)
             /\ stz'.minus = stz.minus
                   + (IF stz.count = 1 /\ stz'.count = 0 THEN 1 ELSE 0)]_vars
    /\ [](~stz.failed =>
             /\ stz.plus - stz.minus = (IF stz.count > 0 THEN 1 ELSE 0)
             /\ stz.last = (IF stz.count > 0 THEN "+" ELSE "-"))

\* C20 witness: three Disables and then three Enables, all successful, have
\* made one call of the inner Disable and one of the inner Enable.
C20_Witness ==
    /\ ~stz.failed
    /\ stz.calls = 6 /\ stz.peak = 3 /\ stz.count = 0
    /\ stz.plus = 1 /\ stz.minus = 1

\* The calls of the controller so far, by number.
Calls == 1..Len(stz.hist)

\* An Enable whose "-" write failed has not been made good by a later
\* successful "-" write among the first n calls.
FailedEnableOutstanding(n) ==
    \E k \in 1..n :
        /\ stz.hist[k].op = "Enable" /\ stz.hist[k].err
        /\ \A j \in (k + 1)..n :
              ~(stz.hist[j].op = "Enable" /\ stz.hist[j].wrote
                  /\ ~stz.hist[j].err)

\* C21 as stated: the counter is never negative, the last written value is
\* "+" exactly when the counter is above 0, and an Enable called at counter
\* 0 writes nothing and leaves the counter at 0.
C21_MirrorsCounter ==
    /\ stz.count >= 0
    /\ stz.last = "+" <=> stz.count > 0
    /\ \A k \in Calls :
          stz.hist[k].op = "Enable" /\ stz.hist[k].c0 = 0
             => ~stz.hist[k].wrote /\ stz.hist[k].c1 = 0

\* C21, amended: the counter is never negative; above 0 the last written
\* value is "+"; at 0 it is "+" exactly while a failed "-" write is
\* outstanding; an Enable called at counter 0 leaves the counter at 0 and
\* writes exactly when such a failed write is outstanding.
C21_MirrorsCounterOrRetries ==
    /\ stz.count >= 0
    /\ stz.count > 0 => stz.last = "+"
    /\ stz.count = 0 =>
          (stz.last = "+" <=> FailedEnableOutstanding(Len(stz.hist)))
    /\ \A k \in Calls :
          stz.hist[k].op = "Enable" /\ stz.hist[k].c0 = 0
             => /\ stz.hist[k].c1 = 0
                /\ stz.hist[k].wrote <=> FailedEnableOutstanding(k - 1)

\* C21 witness: an Enable at counter 0 with nothing outstanding wrote
\* nothing, and one after a failed "-" write made the write again.
C21_Witness ==
    /\ Len(stz.hist) = 4
    /\ stz.hist[1].op = "Enable" /\ ~stz.hist[1].wrote
    /\ stz.hist[2].op = "Disable" /\ stz.hist[2].wrote /\ ~stz.hist[2].err
    /\ stz.hist[3].op = "Enable" /\ stz.hist[3].err
    /\ stz.hist[4].op = "Enable" /\ stz.hist[4].c0 = 0
    /\ stz.hist[4].wrote /\ ~stz.hist[4].err
    /\ stz.count = 0 /\ stz.last = "-"

\* C22: while some long operation is between its Disable and its deferred
\* Enable, the last written value is "+".
C22_LeaseSuppressesIdle ==
    (\E o \in Handlers : ops[o] = "held") => stz.last = "+"

\* C23: a Disable whose write fails at counter 0 leaves the counter at 0;
\* the next Disable makes the write again, and the Enable that follows a
\* successful retry makes the "-" write, once, and brings the counter to 0.
C23_DisableFailureRollsBack ==
    /\ \A k \in Calls :
          stz.hist[k].op = "Disable" /\ stz.hist[k].err =>
             /\ stz.hist[k].c0 = 0 /\ stz.hist[k].c1 = 0
             /\ k + 1 \in Calls /\ stz.hist[k + 1].op = "Disable"
                   => stz.hist[k + 1].wrote
             /\ (/\ k + 2 \in Calls
                 /\ stz.hist[k + 1].op = "Disable" /\ ~stz.hist[k + 1].err
                 /\ stz.hist[k + 2].op = "Enable")
                   => stz.hist[k + 2].wrote /\ stz.hist[k + 2].c1 = 0
    /\ (/\ Len(stz.hist) = 3
        /\ stz.hist[1].op = "Disable" /\ stz.hist[1].err
        /\ stz.hist[2].op = "Disable" /\ ~stz.hist[2].err
        /\ stz.hist[3].op = "Enable" /\ ~stz.hist[3].err)
          => stz.plus = 2 /\ stz.minus = 1 /\ stz.last = "-"

\* C23 witness: a failed Disable, a Disable that wrote "+" again, and an
\* Enable that wrote "-".
C23_Witness ==
    /\ Len(stz.hist) = 3
    /\ stz.hist[1].op = "Disable" /\ stz.hist[1].err
    /\ stz.hist[2].op = "Disable" /\ stz.hist[2].wrote /\ ~stz.hist[2].err
    /\ stz.hist[3].op = "Enable" /\ stz.hist[3].wrote /\ ~stz.hist[3].err
    /\ stz.plus = 2 /\ stz.minus = 1 /\ stz.count = 0

\* C24: an Enable whose write fails on the way from 1 to 0 returns the
\* error, and an Enable right after it calls the inner Enable again.
C24_EnableFailureRetried ==
    \A k \in Calls :
        stz.hist[k].op = "Enable" /\ stz.hist[k].c0 = 1 /\ stz.hist[k].err
           => /\ stz.hist[k].wrote
              /\ k + 1 \in Calls /\ stz.hist[k + 1].op = "Enable"
                    => /\ stz.hist[k + 1].c0 = 0
                       /\ stz.hist[k + 1].wrote
                       /\ k + 1 = Len(stz.hist) /\ ~stz.hist[k + 1].err
                             => stz.last = "-"

\* C24 witness: Disable, an Enable that failed, an Enable that made the
\* write again and succeeded; the inner Enable was called twice.
C24_Witness ==
    /\ Len(stz.hist) = 3
    /\ stz.hist[1].op = "Disable" /\ ~stz.hist[1].err
    /\ stz.hist[2].op = "Enable" /\ stz.hist[2].c0 = 1 /\ stz.hist[2].err
    /\ stz.hist[3].op = "Enable" /\ stz.hist[3].wrote /\ ~stz.hist[3].err
    /\ stz.minus = 2 /\ stz.last = "-"

\* An Enable that failed on the way from 1 to 0.
FailedRelease(k) ==
    /\ k \in Calls
    /\ stz.hist[k].op = "Enable" /\ stz.hist[k].c0 = 1 /\ stz.hist[k].err

Range(q) == {q[n] : n \in 1..Len(q)}

Positions(q, K) == {n \in 1..Len(q) : q[n].k \in K}

ExtKinds == {"disable", "load", "except"}

\* The items that the tokens of a directive name in a list.
Items(q, k) ==
    UNION {Range(q[n].v) : n \in Positions(q, {k})} \ {""}

\* C26: when the overlay has --disable-extensions, the merged list has
\* --disable-extensions as its only extension token.
C26_OverlayDisableWins ==
    mf.pc # "input" /\ Positions(mf.overlay, {"disable"}) # {} =>
       /\ Positions(mf.out, {"load", "except"}) = {}
       /\ Cardinality(Positions(mf.out, ExtKinds)) = 1
       /\ Positions(mf.out, {"disable"}) # {}

\* C26 witness: the overlay has --disable-extensions and a load directive,
\* the base has a load directive, and the merge has run.
C26_Witness ==
    /\ mf.pc = "merged"
    /\ Positions(mf.overlay, {"disable"}) # {}
    /\ Positions(mf.overlay, {"load"}) # {}
    /\ Positions(mf.base, {"load"}) # {}
    /\ mf.out = <<Tok("disable", <<>>)>>

\* C27 as stated: merging any list with the empty list gives the same set
\* of tokens, the non-extension tokens in their first-seen order.
C27_EmptyOverlayIdentity ==
    mf.pc # "input" /\ mf.overlay = <<>> =>
       /\ Range(mf.out) = Range(mf.base)
       /\ NonExt(mf.out) = FirstSeen(NonExt(mf.base))

\* A list with no empty token and no token twice, each of the two
\* directives at most once and with distinct, non-empty items, and no load
\* directive next to --disable-extensions.
Normal(q) ==
    /\ Positions(q, {"empty"}) = {}
    /\ \A i, j \in 1..Len(q) : q[i] = q[j] => i = j
    /\ Cardinality(Positions(q, {"load"})) <= 1
    /\ Cardinality(Positions(q, {"except"})) <= 1
    /\ \A n \in Positions(q, {"load", "except"}) :
          /\ q[n].v # <<>>
          /\ \A i, j \in 1..Len(q[n].v) :
                q[n].v[i] # "" /\ (q[n].v[i] = q[n].v[j] => i = j)
    /\ Positions(q, {"disable"}) # {} => Positions(q, {"load"}) = {}

\* C27, amended: merging such a list with the empty list gives the same
\* set of tokens, the non-extension tokens in their first-seen order; a
\* merged list is such a list, and merging it with the empty list gives it
\* back unchanged.
C27_EmptyOverlayKeepsNormal ==
    /\ mf.pc # "input" /\ mf.overlay = <<>> /\ Normal(mf.base) =>
          /\ Range(mf.out) = Range(mf.base)
          /\ NonExt(mf.out) = NonExt(mf.base)
    /\ mf.pc # "input" => Normal(mf.out)
    /\ mf.pc = "again" => mf.again = mf.out

\* C27 witness: a list with a load directive before a plain flag was
\* merged with the empty list, and the result merged with it again.
C27_Witness ==
    /\ mf.pc = "again" /\ mf.overlay = <<>>
    /\ mf.base = <<Tok("load", <<"e1">>), Tok("flag", <<"f1">>)>>
    /\ mf.out = <<Tok("flag", <<"f1">>), Tok("load", <<"e1">>)>>
    /\ mf.again = mf.out

\* C28: when the overlay has no --disable-extensions, the merged list keeps
\* the base's --disable-extensions if the overlay names no extension to
\* load; otherwise it has no --disable-extensions and its load directive
\* names the extensions of both lists. An upload of ext1 over a file with
\* only --disable-extensions gives the load directive for ext1 and no
\* --disable-extensions.
C28_BaseDisableYieldsToLoad ==
    /\ mf.pc # "input" /\ Positions(mf.overlay, {"disable"}) = {} =>
          IF Positions(mf.base, {"disable"}) # {}
                /\ Items(mf.overlay, "load") = {}
          THEN Positions(mf.out, {"disable"}) # {}
          ELSE /\ Positions(mf.out, {"disable"}) = {}
               /\ Items(mf.out, "load")
                     = Items(mf.base, "load") \cup Items(mf.overlay, "load")
               /\ Cardinality(Positions(mf.out, {"load"}))
                     = (IF Items(mf.out, "load") = {} THEN 0 ELSE 1)
    /\ (/\ mf.pc # "input"
        /\ mf.base = <<Tok("disable", <<>>)>>
        /\ mf.overlay = <<Tok("except", <<"e1">>), Tok("load", <<"e1">>)>>)
          => mf.out = <<Tok("load", <<"e1">>), Tok("except", <<"e1">>)>>

\* C28 witness: the upload of ext1 over a file with only
\* --disable-extensions has been merged.
C28_Witness ==
    /\ mf.pc = "merged"
    /\ mf.base = <<Tok("disable", <<>>)>>
    /\ mf.overlay = <<Tok("except", <<"e1">>), Tok("load", <<"e1">>)>>
    /\ Positions(mf.out, {"disable"}) = {}
    /\ Tok("load", <<"e1">>) \in Range(mf.out)

\* The place of the first occurrence of x in q.
FirstPos(q, x) ==
    CHOOSE n \in 1..Len(q) : q[n] = x /\ \A m \in 1..(n - 1) : q[m] # x

\* v has the elements of q, each once, in the order of their first
\* occurrence in q.
IsFirstOccurrences(v, q) ==
    /\ Range(v) = Range(q)
    /\ \A i, j \in 1..Len(v) :
          i < j => v[i] # v[j] /\ FirstPos(q, v[i]) < FirstPos(q, v[j])

\* C29: the merged list has no empty token and no token twice; a load or
\* except directive in it has the items of the base and then the overlay in
\* the order of their first occurrence; its other tokens are those of the
\* base and then the overlay, first occurrences only, before any directive.
C29_MergedListShape ==
    mf.pc # "input" =>
       /\ Positions(mf.out, {"empty"}) = {}
       /\ \A i, j \in 1..Len(mf.out) : mf.out[i] = mf.out[j] => i = j
       /\ \A n \in Positions(mf.out, {"load", "except"}) :
             IsFirstOccurrences(mf.out[n].v,
                Bucket(mf.base, mf.out[n].k) \o Bucket(mf.overlay, mf.out[n].k))
       /\ IsFirstOccurrences(NonExt(mf.out),
             SelectSeq(NonExt(mf.base) \o NonExt(mf.overlay),
                       LAMBDA t : t.k # "empty"))
       /\ \A i \in Positions(mf.out, {"flag"}) :
             \A j \in Positions(mf.out, ExtKinds) : i < j

\* C29 witness: lists with an empty token, an empty item, a repeated flag
\* and a repeated item were merged.
C29_Witness ==
    /\ mf.pc = "merged"
    /\ mf.base = <<Tok("load", <<"e2", "", "e1">>), Tok("flag", <<"f1">>)>>
    /\ mf.overlay \in {<<Tok("flag", <<"f1">>), Tok("load", <<"e1">>)>>,
                       <<Tok("empty", <<>>), Tok("load", <<"e1">>)>>}
    /\ mf.out = <<Tok("flag", <<"f1">>), Tok("load", <<"e2", "e1">>)>>

\* C30: a bridged session that has ended has closed the client and the
\* upstream connection, each once, and nothing is closed while it is
\* bridging; neither goroutine is ever kept from reporting its error; a
\* session whose dial failed has closed the client connection, once, and
\* started no bridging; no connection is ever closed twice.
C30_BridgeCleanup ==
    /\ \A c \in Sessions :
          /\ ws[c].clientClosed <= 1 /\ ws[c].upClosed <= 1
          /\ ws[c].c2u = "run" \/ ws[c].u2c = "run" => ws[c].errs < 2
          /\ ws[c].pc = "bridge" =>
                ws[c].clientClosed = 0 /\ ws[c].upClosed = 0
          /\ ws[c].end \in {"ctx", "err"} =>
                ws[c].clientClosed = 1 /\ ws[c].upClosed = 1
          /\ ws[c].end = "nodial" =>
                /\ ws[c].clientClosed = 1 /\ ws[c].upClosed = 0
                /\ ws[c].c2u = "none" /\ ws[c].u2c = "none"
          /\ ws[c].end \in {"none", "notready", "invalid", "noupgrade",
                            "version"} =>
                ws[c].clientClosed = 0 /\ ws[c].upClosed = 0
    /\ [][\A c \in Sessions :
             /\ ws[c].pc = "bridge" /\ ws'[c].pc = "done" =>
                   ws'[c].clientClosed = 1 /\ ws'[c].upClosed = 1
             /\ ws[c].pc = "done" => ws'[c].clientClosed = ws[c].clientClosed
                                     /\ ws'[c].upClosed = ws[c].upClosed]_vars

\* C30 witness: in one session both directions failed before the handler
\* took the first error and cleaned up; in the other the dial failed.
C30_Witness ==
    \E c, d \in Sessions :
        /\ ws[c].end = "err" /\ ws[c].c2u = "done" /\ ws[c].u2c = "done"
        /\ ws[c].errs = 1
        /\ ws[c].clientClosed = 1 /\ ws[c].upClosed = 1
        /\ ws[d].end = "nodial" /\ ws[d].clientClosed = 1

\* The waits on the exited channel: the startup wait of Start, the wait of
\* a phase of the graceful shutdown, the wait of ForceStop.
WaitPcs == {"start_wait", "gs_wait", "force_wait"}

\* C33: a thread that waits on the exited signal or on a phase timeout
\* holds neither a recorder's lock nor the registry's lock.
C33_NoLockAcrossWait ==
    \A t \in Threads :
       th[t].pc \in WaitPcs =>
          /\ fmMu # t
          /\ \A r \in Threads : recs[r].mu # t

\* C38: the lock of a recorder is not held by a call that has returned.
C38_ReturnReleasesLock ==
    \A r \in Threads :
       recs[r].mu # 0 => th[recs[r].mu].pc # "done"

\* The place of a URL in the log (each URL is logged once).
LineOf(url) == CHOOSE n \in 1..Len(log) : log[n] = url

\* C39: once the URL of the last line of the log is the published one, a
\* publication never replaces it by the URL of an earlier line.
C39_NeverBackToEarlierUrl ==
    [][(Len(log) > 0 /\ cur = log[Len(log)] /\ cur' # cur)
          => LineOf(cur') > LineOf(cur)]_vars

\* The tailer has just read a line of the log.
LineRead == tail'.pos = tail.pos + 1

\* C34: the published URL changes only on reading a DevTools line whose URL
\* differs from it, to that URL; a line that repeats it changes nothing and
\* notifies nobody; a published URL is never replaced by the empty one.
C34_PublishedOnChangeOnly ==
    /\ [][cur' # cur =>
             /\ LineRead
             /\ log[tail'.pos] > 0
             /\ log[tail'.pos] # cur
             /\ cur' = log[tail'.pos]]_vars
    /\ [][LineRead /\ log[tail'.pos] = cur => cur' = cur /\ up' = up]_vars
    /\ [][cur # 0 => cur' # 0]_vars

\* C34 witness: the log is the DevTools line of URL 1 twice; the second
\* session has read the first line again, the URL is published and the
\* sinks were notified once.
C34_Witness ==
    /\ log = <<1, 1>>
    /\ tail.runs = 2 /\ tail.pos = 1
    /\ cur = 1
    /\ \A h \in Handlers : up[h].notifs = 1

Min(a, b) == IF a <= b THEN a ELSE b

\* The tail loop has just slept.
Slept == tl'.sleeps = tl.sleeps + 1

\* C35 as stated: the first sleep takes 250 ms, the sleep after a session
\* that matched a DevTools line takes 250 ms again, and any other sleep
\* takes the lesser of twice the one before and 2 s.
C35_BackoffResetOnMatch ==
    /\ [][Slept =>
             tl'.slept = IF tl.sleeps = 0 \/ tl.matched THEN InitialBackoff
                         ELSE Min(2 * tl.slept, MaxBackoff)]_vars
    /\ [](tl.slept <= MaxBackoff)

\* C35, amended: the first sleep takes 250 ms and every later one the
\* lesser of twice the one before and 2 s, also after a session that
\* matched a DevTools line.
C35_BackoffNeverReset ==
    /\ [][Slept =>
             tl'.slept = IF tl.sleeps = 0 THEN InitialBackoff
                         ELSE Min(2 * tl.slept, MaxBackoff)]_vars
    /\ [](tl.slept <= MaxBackoff)

\* C35 witness: the loop has slept five times, the last two times 2 s, the
\* last time after a session that matched a DevTools line.
C35_Witness ==
    /\ tl.sleeps = 5 /\ tl.slept = MaxBackoff /\ tl.backoff = MaxBackoff
    /\ tl.pc = "check" /\ tl.matched

\* C36: the tail loop is launched at most once; a Stop that has returned
\* after a Start has cancelled the loop's context; and once that context is
\* done no session is started and nothing is published.
C36_StopEndsLoop ==
    /\ [](tl.launched <= 1)
    /\ [](tl.stopAfter => CtxDone)
    /\ [][CtxDone => tail'.runs = tail.runs /\ cur' = cur]_vars

\* C32: a request is answered 503 exactly when no upstream URL was known as
\* it arrived, and then nothing was upgraded or dialled; otherwise
\* /json/version answers 200 with a ws URL on the host of the request.
C32_NotReadyIffNoUpstream ==
    \A c \in Sessions :
       ws[c].path # "none" =>
          /\ ws[c].status = 503 <=> ws[c].seen = 0
          /\ ws[c].seen = 0 =>
                /\ ws[c].pc = "done" /\ ws[c].tried = {}
                /\ ws[c].c2u = "none" /\ ws[c].u2c = "none"
          /\ ws[c].path = "version" /\ ws[c].seen # 0 =>
                /\ ws[c].status = 200
                /\ ws[c].url.scheme = "ws"
                /\ ws[c].url.host = ws[c].host

\* C32 witness: a WebSocket request that arrived before the first
\* publication was answered 503; after the publication /json/version
\* answered 200 with the URL on the request's host.
C32_Witness ==
    \E c, d \in Sessions :
        /\ ws[c].path = "ws" /\ ws[c].seen = 0 /\ ws[c].status = 503
        /\ ws[d].path = "version" /\ ws[d].seen = 1 /\ ws[d].status = 200
        /\ ws[d].host = "other:80" /\ ws[d].url = VersionUrl("other:80")

\* C40: once the cleanup has run, both copying goroutines end; errChan
\* never holds more than the two errors it has room for.
C40_CopiersTerminate ==
    /\ \A c \in Sessions :
          ws[c].once ~> (ws[c].c2u = "done" /\ ws[c].u2c = "done")
    /\ [](\A c \in Sessions : ws[c].errs <= errChanCap)

\* C40 witness: the handler left through the context's cancellation, both
\* goroutines have reported their errors and ended, and errChan holds both.
C40_Witness ==
    \E c \in Sessions :
        /\ ws[c].end = "ctx" /\ ws[c].once
        /\ ws[c].c2u = "done" /\ ws[c].u2c = "done"
        /\ ws[c].errs = 2

\* C37: when the archive of a pair does not unpack, the request is answered
\* 400 "invalid zip file", that pair and the later ones are not unpacked,
\* the flags file is not written and no restart is launched; nor are they
\* for any request that failed during parsing. The flags file is written
\* only with every pair unpacked, the restart launched only after that.
C37_FailureLeavesOverlay ==
    /\ [](mp.zipFailed =>
             /\ mp.pc = "fail" /\ mp.resp = 400
             /\ mp.msg = "invalid zip file"
             /\ mp.unpacked < mp.items
             /\ ~mp.flagsWritten /\ ~mp.restart)
    /\ [](mp.pc = "bad" \/ (mp.pc = "fail" /\ mp.unpacked = 0) =>
             ~mp.flagsWritten /\ ~mp.restart)
    /\ [][/\ mp.zipFailed => mp'.unpacked = mp.unpacked
          /\ mp'.flagsWritten /\ ~mp.flagsWritten =>
                mp.unpacked = mp.items /\ ~mp.zipFailed
          /\ mp'.restart /\ ~mp.restart => mp.flagsWritten]_vars

\* C37 witness: of two pairs the first was unpacked and the second was
\* not; the request was answered 400 with nothing written or restarted.
C37_Witness ==
    /\ mp.zipFailed /\ mp.pc = "fail" /\ mp.resp = 400
    /\ mp.items = 2 /\ mp.unpacked = 1
    /\ ~mp.flagsWritten /\ ~mp.restart

\* The messages a goroutine has read and is no longer holding for its write.
Passed(d) ==
    SubSeq(br.src[d], 1, br.n[d] - (IF br.held[d] = NoMsg THEN 0 ELSE 1))

\* C31: in each direction the messages delivered are the messages read, in
\* the order read, with their opcodes and payloads, but for a message whose
\* write is under way or has failed; with logging enabled or not.
C31_MessagesForwardedIntact ==
    /\ [](\A d \in Dirs : br.out[d] = Passed(d))
    /\ [](\A d \in Dirs : br.logging \/ br.logged[d] = 0)
    /\ [][\A d \in Dirs :
             br'.out[d] # br.out[d] =>
                /\ br.held[d] # NoMsg
                /\ br'.out[d] = Append(br.out[d], br.held[d])]_vars

\* C31 witness: with logging enabled, a text and a binary message have been
\* delivered in each direction, in the two orders.
C31_Witness ==
    /\ br.logging
    /\ br.out["c2u"] = <<[mt |-> "text", p |-> "a"],
                         [mt |-> "binary", p |-> "b"]>>
    /\ br.out["u2c"] = <<[mt |-> "binary", p |-> "b"],
                         [mt |-> "text", p |-> "a"]>>
    /\ br.logged["c2u"] = 1 /\ br.logged["u2c"] = 1

====
